---- MODULE Spec2Model ----
(***************************************************************************)
(* Document-level retrieval of pcr_services.py: get_top_n_document_fids    *)
(* and get_pcr_records_from_chroma, as a state machine over one service    *)
(* call at a time (the coroutine holds no await, so a call runs without    *)
(* interleaving on the event loop).                                        *)
(*                                                                         *)
(* Strings are sequences of tokens, so that str.join is a computation.     *)
(***************************************************************************)
EXTENDS Integers, Sequences, FiniteSets, TLC

\* ------------------------------------------------------------------ bounds
\* Longest upstream response (number of chunks returned by similarity_search).
MaxLen == 3
\* Largest top_n_documents a caller passes.
MaxTopN == 2

\* ------------------------------------------------------------------ values
\* Python's None, for a missing metadata key, an absent query, an unset field.
None == "None"
\* The document identifiers the index can hold.
Fids == {"A", "B", "C"}
\* What chunk.metadata.get("fid") can yield: an identifier or None.
FidVals == Fids \cup {None}
\* What the metadata holds under the required key pcr_reg_no (None: key missing).
RegVals == {"R1", "R2", None}
\* The values of the search argument: absent, empty, non-empty.
Queries == {None, "", "pcr"}
\* The values of top_n_documents.
TopNs == 1..MaxTopN
\* The text of the i-th chunk of an upstream response: the chunks of one
\* response are distinct passages, named by their position.
TextNames == <<"t1", "t2", "t3", "t4", "t5", "t6", "t7", "t8">>
PassageText(i) == <<TextNames[i]>>
\* The separator string of the join.
Separator == <<"SEP">>
\* page_content of a PCRRecord before the join: the field's default, None.
NullText == <<None>>
\* The errors similarity_search can raise.
UpstreamErrors ==
    { [type |-> "NotInitialized", message |-> <<"no index">>],
      [type |-> "Timeout", message |-> <<"timed out">>] }
NoError == [type |-> None, message |-> <<>>]
\* pydantic's error on PCRRecord(**metadata) without pcr_reg_no.
ValidationError == [type |-> "ValidationError", message |-> <<"pcr_reg_no required">>]
\* The message prefix of the service's own exception.
ErrorPrefix == <<"query failed: ">>

\* Python truthiness of a str-or-None value.
Truthy(v) == v \notin {None, ""}

\* A Document of the upstream response at position i.
Chunk(i, f, r) == [fid |-> f, pcr_reg_no |-> r, page_content |-> PassageText(i)]

\* The upstream response of n chunks whose i-th chunk has fid m[i][1] and
\* pcr_reg_no m[i][2].
Response(n, m) == [i \in 1..n |-> Chunk(i, m[i][1], m[i][2])]

Range(s) == { s[i] : i \in DOMAIN s }

\* ------------------------------------------------- get_top_n_document_fids
\* A variant that keeps the passages without fid in the count.
FidListUnfiltered(chunks) == [i \in 1..Len(chunks) |-> chunks[i].fid]

\* fids = [doc.metadata.get("fid") for doc in chunks if doc.metadata.get("fid")]
FidList(chunks) ==
    LET all == [i \in 1..Len(chunks) |-> chunks[i].fid]
    IN  SelectSeq(all, Truthy)

\* Counter(fids)[f]: the number of occurrences of f.
CountOf(fids, f) == Cardinality({ i \in DOMAIN fids : fids[i] = f })

\* A variant that counts over a list, keeping repeated keys.
CounterKeysKeepingRepeats(fids) == fids

\* The keys of Counter(fids), in insertion (first occurrence) order.
RECURSIVE CounterKeys(_)
CounterKeys(fids) ==
    IF fids = <<>> THEN <<>>
    ELSE LET init == CounterKeys(SubSeq(fids, 1, Len(fids) - 1))
             last == fids[Len(fids)]
         IN  IF last \in Range(init) THEN init ELSE Append(init, last)

\* s without its i-th element.
RemoveAt(s, i) == SubSeq(s, 1, i - 1) \o SubSeq(s, i + 1, Len(s))

\* A variant that takes the keys in insertion order, unsorted.
NextInInsertionOrder(keys, fids) == 1

\* A variant that takes the last key of the largest count.
NextLargestLatest(keys, fids) ==
    CHOOSE i \in DOMAIN keys :
        \A j \in DOMAIN keys :
            \/ CountOf(fids, keys[i]) > CountOf(fids, keys[j])
            \/ CountOf(fids, keys[i]) = CountOf(fids, keys[j]) /\ i >= j

\* The position most_common takes next: the first key of the largest count
\* (heapq.nlargest is sorted(..., reverse=True)[:n], a stable sort).
NextLargest(keys, fids) ==
    CHOOSE i \in DOMAIN keys :
        \A j \in DOMAIN keys :
            \/ CountOf(fids, keys[i]) > CountOf(fids, keys[j])
            \/ CountOf(fids, keys[i]) = CountOf(fids, keys[j]) /\ i <= j

\* The keys sorted by count, largest first, equal counts in insertion order.
RECURSIVE SortedByCount(_, _)
SortedByCount(keys, fids) ==
    IF keys = <<>> THEN <<>>
    ELSE LET i == NextLargest(keys, fids)
         IN  <<keys[i]>> \o SortedByCount(RemoveAt(keys, i), fids)

\* A variant that takes every key, whatever n.
MostCommonUncut(fids, n) == SortedByCount(CounterKeys(fids), fids)

\* Counter(fids).most_common(n), keys only; n <= 0 yields the empty list.
MostCommon(fids, n) ==
    LET sorted == SortedByCount(CounterKeys(fids), fids)
    IN  IF n <= 0 THEN <<>>
        ELSE SubSeq(sorted, 1, IF n < Len(sorted) THEN n ELSE Len(sorted))

get_top_n_document_fids(chunks, top_n) == MostCommon(FidList(chunks), top_n)

\* ------------------------------------------------------------ aggregation
\* document_context = {} : a fresh dict in every call.
EmptyContext == <<>>

\* PCRRecord(**chunk.metadata, page_contents=[]) of a chunk.
NewRecord(chunk) ==
    [fid |-> chunk.fid, pcr_reg_no |-> chunk.pcr_reg_no,
     page_contents |-> <<>>, page_content |-> NullText]

\* Whether PCRRecord(**chunk.metadata) validates: pcr_reg_no is required.
Validates(chunk) == chunk.pcr_reg_no # None

\* The position of fid's record in the dict (0: fid not in document_context).
\* The dict is a sequence of records in insertion order.
KeyIndex(ctx, fid) ==
    IF \E k \in DOMAIN ctx : ctx[k].fid = fid
    THEN CHOOSE k \in DOMAIN ctx : ctx[k].fid = fid
    ELSE 0

\* A variant that inserts the text at the front of the list.
PrependContent(ctx, k, chunk) ==
    [ctx EXCEPT ![k].page_contents = <<chunk.page_content>> \o @]

\* A variant that also takes the metadata of the later passage.
AppendContentAndMetadata(ctx, k, chunk) ==
    [ctx EXCEPT ![k].page_contents = Append(@, chunk.page_content),
                ![k].pcr_reg_no = chunk.pcr_reg_no]

\* document_context[fid].page_contents.append(chunk.page_content)
AppendContent(ctx, k, chunk) ==
    [ctx EXCEPT ![k].page_contents = Append(@, chunk.page_content)]

\* The loop over initial_chunks from chunk i on; ok is FALSE when the
\* construction of a record raised, ctx is the dict at that point.
RECURSIVE AggregateChunks(_, _, _, _)
AggregateChunks(chunks, top, i, ctx) ==
    IF i > Len(chunks) THEN [ok |-> TRUE, ctx |-> ctx]
    ELSE LET chunk == chunks[i]
             fid == chunk.fid
         IN  IF Truthy(fid) /\ fid \in Range(top)
             THEN IF KeyIndex(ctx, fid) = 0
                  THEN IF Validates(chunk)
                       THEN LET ctx1 == Append(ctx, NewRecord(chunk))
                            IN  AggregateChunks(chunks, top, i + 1,
                                    AppendContent(ctx1, Len(ctx1), chunk))
                       ELSE [ok |-> FALSE, ctx |-> ctx]
                  ELSE AggregateChunks(chunks, top, i + 1,
                           AppendContent(ctx, KeyIndex(ctx, fid), chunk))
             ELSE AggregateChunks(chunks, top, i + 1, ctx)

\* sep.join(parts)
RECURSIVE Join(_, _)
Join(sep, parts) ==
    IF parts = <<>> THEN <<>>
    ELSE IF Len(parts) = 1 THEN parts[1]
    ELSE parts[1] \o sep \o Join(sep, Tail(parts))

\* A variant that emits the records in the dict's insertion order.
BuildInEncounterOrder(top, ctx, i) ==
    [k \in 1..Len(ctx) |->
        [ctx[k] EXCEPT !.page_content = Join(Separator, ctx[k].page_contents)]]

\* A variant that emits, for every ranked fid, all records of the dict.
RECURSIVE BuildWithoutKeyCheck(_, _, _)
BuildWithoutKeyCheck(top, ctx, i) ==
    IF i > Len(top) THEN <<>>
    ELSE [k \in 1..Len(ctx) |->
             [ctx[k] EXCEPT !.page_content = Join(Separator, ctx[k].page_contents)]]
         \o BuildWithoutKeyCheck(top, ctx, i + 1)

\* A variant that stops at the first ranked fid missing from the dict.
RECURSIVE BuildUntilMissing(_, _, _)
BuildUntilMissing(top, ctx, i) ==
    IF i > Len(top) THEN <<>>
    ELSE LET k == KeyIndex(ctx, top[i])
         IN  IF k # 0
             THEN <<[ctx[k] EXCEPT !.page_content =
                         Join(Separator, ctx[k].page_contents)]>>
                  \o BuildUntilMissing(top, ctx, i + 1)
             ELSE <<>>

\* The loop over top_doc_fids from rank i on: the records of the ranked
\* fids that are in document_context, each with its page_content joined.
RECURSIVE BuildFinalRecords(_, _, _)
BuildFinalRecords(top, ctx, i) ==
    IF i > Len(top) THEN <<>>
    ELSE LET k == KeyIndex(ctx, top[i])
             rest == BuildFinalRecords(top, ctx, i + 1)
         IN  IF k # 0
             THEN <<[ctx[k] EXCEPT !.page_content =
                         Join(Separator, ctx[k].page_contents)]>> \o rest
             ELSE rest

\* The ranked fids the final loop logs a warning for: those not in the dict.
SkippedFids(top, ctx) ==
    LET Missing(f) == KeyIndex(ctx, f) = 0
    IN  SelectSeq(top, Missing)

\* A variant whose message leaves the cause out.
WrappedWithoutCause(e) == [type |-> "Exception", message |-> ErrorPrefix]

\* raise Exception(f"...: {e}") in the except clause.
Wrapped(e) == [type |-> "Exception", message |-> ErrorPrefix \o e.message]

\* ------------------------------------------------------------------ state
VARIABLES
    pc,                \* where the call is: idle, search, rank, aggregate,
                       \* emit, returned, raised
    search,            \* the call's search argument
    top_n_documents,   \* the call's top_n_documents argument
    initial_chunks,    \* the upstream response
    top_doc_fids,      \* the ranked fids
    document_context,  \* the per-fid accumulator, in insertion order
    final_records,     \* the records built in rank order
    returned,          \* the list the call returned
    error,             \* the exception the call raised (NoError: none)
    upstreamCalls,     \* similarity_search invocations of this call
    upstreamError,     \* what similarity_search raised in this call
    ref,               \* history: a completed call kept for comparison
    warned             \* the fids of the warnings logged by the final loop

coreVars == <<pc, search, top_n_documents, initial_chunks, top_doc_fids,
              document_context, final_records, returned, error, upstreamCalls,
              upstreamError, ref, warned>>

\* The calls in progress at the same time, each with its own locals.
VARIABLES
    frames,            \* per call: its arguments, locals and outcome
    contexts           \* per dict object: the document_context it holds

concVars == <<frames, contexts>>

\* The index manager, the SDK probe and the two HTTP handlers.
VARIABLES
    manager,           \* ChromaDBManager._instance and its _db
    sdk,               \* the outcome of the google-genai import probe
    SESSIONS,          \* the session store of /api/chat
    request,           \* the request being handled, with the handler's locals
    response           \* the response to that request, until it is sent

apiVars == <<manager, sdk, SESSIONS, request, response>>

\* The LINE webhook of main.py and its next-state function.
VARIABLES
    user_states,       \* per user id: current_state and product_query
    event,             \* the webhook event in hand and the handler's locals
    transition         \* a call of determine_next_state_from_llm_reply

lineVars == <<user_states, event, transition>>

\* The agent-based LINE webhook of line_bot.py.
VARIABLES
    user_sessions,     \* per user id: memory and agent executor
    constructed,       \* per user id: how many sessions were made for it
    handlers           \* per webhook request in progress: its event and locals

botVars == <<user_sessions, constructed, handlers>>

\* The loader of the relational store, sqlite_saver.py.
VARIABLES
    pcr_records,       \* the committed rows of the table pcr_records
    saver              \* a run of save_to_sqlite: its list, position, pending rows

saverVars == <<pcr_records, saver>>

\* The state of the programs beside the search service and its handlers.
\* The loader of the similarity index, chroma_index_pdf.py.
VARIABLES
    indexer            \* the batched write: the prepared lists and the batches

indexVars == <<indexer>>

loadVars == <<saverVars, indexVars>>
appVars == <<lineVars, botVars, loadVars>>

\* What a step of one get_pcr_records_from_chroma call leaves alone.
outsideCore == <<concVars, apiVars, appVars>>

vars == <<coreVars, concVars, apiVars, appVars>>

\* The two calls of SpecConc.
Calls == {"c1", "c2"}
\* The locals of a call that has not started.
NewFrame ==
    [pc |-> "idle", search |-> None, top_n_documents |-> 1,
     initial_chunks |-> <<>>, top_doc_fids |-> <<>>, returned |-> <<>>,
     error |-> NoError, upstreamError |-> NoError]

\* Before the module is imported: no instance, no handle (0), nothing loaded.
NewManager == [instances |-> 0, db |-> 0, loads |-> 0]
\* No request has been handled yet.
NoPrompt == [kind |-> "none", messages |-> <<>>, results |-> <<>>]
NoRequest ==
    [handler |-> "none", pc |-> "idle", skip |-> 0, limit |-> 0,
     search |-> None, sid |-> None, index |-> "unneeded",
     chunks |-> <<>>, records |-> <<>>, messages |-> <<>>, had |-> 0,
     prompt |-> NoPrompt,
     text |-> <<>>, answered |-> FALSE]
NoResponse ==
    [status |-> 0, kind |-> "none", detail |-> <<>>, records |-> <<>>,
     reply |-> <<>>, session_id |-> None, handle |-> 0]

Done == {"returned", "raised"}
NoRef == [age |-> 0, search |-> None, top_n |-> 0, chunks |-> <<>>,
          upstream |-> NoError, pc |-> "idle", returned |-> <<>>,
          error |-> NoError]

\* user_states = {}: an entry made by setdefault has no key yet.
NoEntry == [current_state |-> None, product_query |-> None]
\* No webhook event in hand.
NoEvent ==
    [pc |-> "idle", type |-> "none", user |-> None, text |-> "",
     arrived |-> None, current_state |-> None, status |-> "",
     checked |-> None, bot_reply |-> <<>>, sent |-> <<>>]
\* No call of determine_next_state_from_llm_reply made.
NoTransition ==
    [pc |-> "idle", current_state |-> None, llm_reply |-> <<>>, result |-> None]

\* The users of the agent-based webhook and the webhook requests that can be
\* in progress at once.
BotUsers == {"u1", "u2"}
Requests == {"r1", "r2"}
\* A session: ConversationBufferMemory() and the AgentExecutor made for it.
NoSession == [memory |-> <<>>, agent_executor |-> 0]
\* A webhook request with no event in hand.
NoHandler ==
    [pc |-> "idle", type |-> "none", user |-> None, text |-> "",
     before |-> 0, output |-> "", replies |-> 0]

\* No run of save_to_sqlite made.
NoRun ==
    [pc |-> "idle", data |-> <<>>, i |-> 0, pending |-> {}, before |-> {},
     runs |-> 0, again |-> FALSE]

\* index_pdfs_to_chroma before the chunks are prepared.
NoIndexing ==
    [pc |-> "idle", documents |-> <<>>, metadatas |-> <<>>, ids |-> <<>>,
     i |-> 0, batch |-> <<>>, submitted |-> <<>>]

Init ==
    /\ pc = "idle"
    /\ search = None
    /\ top_n_documents = 1
    /\ initial_chunks = <<>>
    /\ top_doc_fids = <<>>
    /\ document_context = EmptyContext
    /\ final_records = <<>>
    /\ returned = <<>>
    /\ error = NoError
    /\ upstreamCalls = 0
    /\ upstreamError = NoError
    /\ ref = NoRef
    /\ warned = <<>>
    /\ frames = [c \in Calls |-> NewFrame]
    /\ contexts = [c \in Calls |-> EmptyContext]
    /\ manager = NewManager
    /\ sdk = "unprobed"
    /\ SESSIONS = [sid \in {} |-> <<>>]
    /\ request = NoRequest
    /\ response = NoResponse
    /\ user_states = [u \in {} |-> NoEntry]
    /\ event = NoEvent
    /\ transition = NoTransition
    /\ user_sessions = [u \in {} |-> NoSession]
    /\ constructed = [u \in BotUsers |-> 0]
    /\ handlers = [r \in Requests |-> NoHandler]
    /\ pcr_records = {}
    /\ saver = NoRun
    /\ indexer = NoIndexing

\* The history ages by one with every later call (2: at least two later calls).
Aged(r) == IF r = NoRef THEN r ELSE [r EXCEPT !.age = IF @ < 2 THEN @ + 1 ELSE 2]

\* A variant without the guard on the query.
CallWithoutGuard ==
    /\ pc \in Done \cup {"idle"}
    /\ \E s \in Queries, n \in TopNs :
        /\ search' = s
        /\ top_n_documents' = n
        /\ initial_chunks' = <<>>
        /\ top_doc_fids' = <<>>
        /\ document_context' = EmptyContext
        /\ final_records' = <<>>
        /\ returned' = <<>>
        /\ error' = NoError
        /\ upstreamCalls' = 0
        /\ upstreamError' = NoError
        /\ ref' = Aged(ref)
        /\ warned' = <<>>
        /\ pc' = "search"
    /\ UNCHANGED outsideCore

\* A variant whose document_context is one dict shared by all calls.
CallSharingContext ==
    /\ pc \in Done \cup {"idle"}
    /\ \E s \in Queries, n \in TopNs :
        /\ search' = s
        /\ top_n_documents' = n
        /\ initial_chunks' = <<>>
        /\ top_doc_fids' = <<>>
        /\ UNCHANGED document_context
        /\ final_records' = <<>>
        /\ returned' = <<>>
        /\ error' = NoError
        /\ upstreamCalls' = 0
        /\ upstreamError' = NoError
        /\ ref' = Aged(ref)
        /\ warned' = <<>>
        /\ pc' = IF Truthy(s) THEN "search" ELSE "returned"
    /\ UNCHANGED outsideCore

\* A caller invokes get_pcr_records_from_chroma(db, search=s, top_n_documents=n):
\* a new frame, and the guard on the query.
Call ==
    /\ pc \in Done \cup {"idle"}
    /\ \E s \in Queries, n \in TopNs :
        /\ search' = s
        /\ top_n_documents' = n
        /\ initial_chunks' = <<>>
        /\ top_doc_fids' = <<>>
        /\ document_context' = EmptyContext
        /\ final_records' = <<>>
        /\ returned' = <<>>
        /\ error' = NoError
        /\ upstreamCalls' = 0
        /\ upstreamError' = NoError
        /\ ref' = Aged(ref)
        /\ warned' = <<>>
        /\ pc' = IF Truthy(s) THEN "search" ELSE "returned"
    /\ UNCHANGED outsideCore

\* A variant that treats an empty response as a failure.
SimilaritySearchRejectsEmpty(F, R) ==
    /\ pc = "search"
    /\ \E n \in 0..MaxLen : \E m \in [1..n -> F \X R] :
        /\ upstreamCalls' = upstreamCalls + 1
        /\ initial_chunks' = Response(n, m)
        /\ pc' = IF n = 0 THEN "raised" ELSE "rank"
        /\ error' = IF n = 0 THEN Wrapped(NoError) ELSE error
        /\ UNCHANGED <<search, top_n_documents, top_doc_fids, document_context,
                       final_records, returned, upstreamError, ref, warned>>
    /\ UNCHANGED outsideCore

\* db.similarity_search(search, k) returns a response of at most MaxLen
\* chunks, with fids in F and pcr_reg_no in R.
SimilaritySearchReturns(F, R) ==
    /\ pc = "search"
    /\ \E n \in 0..MaxLen : \E m \in [1..n -> F \X R] :
        /\ upstreamCalls' = upstreamCalls + 1
        /\ initial_chunks' = Response(n, m)
        /\ pc' = IF n = 0 THEN "returned" ELSE "rank"
        /\ UNCHANGED <<search, top_n_documents, top_doc_fids, document_context,
                       final_records, returned, error, upstreamError, ref, warned>>
    /\ UNCHANGED outsideCore

\* A variant that calls similarity_search again after a failure.
SimilaritySearchRetries ==
    /\ pc = "search"
    /\ upstreamCalls < 2
    /\ \E e \in UpstreamErrors :
        /\ upstreamCalls' = upstreamCalls + 1
        /\ upstreamError' = e
        /\ error' = IF upstreamCalls = 0 THEN NoError ELSE Wrapped(e)
        /\ pc' = IF upstreamCalls = 0 THEN "search" ELSE "raised"
        /\ UNCHANGED <<search, top_n_documents, initial_chunks, top_doc_fids,
                       document_context, final_records, returned, ref, warned>>
    /\ UNCHANGED outsideCore

\* db.similarity_search raises; the except clause raises the service's own
\* exception in its place.
SimilaritySearchRaises ==
    /\ pc = "search"
    /\ \E e \in UpstreamErrors :
        /\ upstreamCalls' = upstreamCalls + 1
        /\ upstreamError' = e
        /\ error' = Wrapped(e)
        /\ pc' = "raised"
        /\ UNCHANGED <<search, top_n_documents, initial_chunks, top_doc_fids,
                       document_context, final_records, returned, ref, warned>>
    /\ UNCHANGED outsideCore

\* top_doc_fids = get_top_n_document_fids(initial_chunks, top_n_documents)
Rank ==
    /\ pc = "rank"
    /\ top_doc_fids' = get_top_n_document_fids(initial_chunks, top_n_documents)
    /\ pc' = "aggregate"
    /\ UNCHANGED <<search, top_n_documents, initial_chunks, document_context,
                   final_records, returned, error, upstreamCalls,
                   upstreamError, ref, warned>>
    /\ UNCHANGED outsideCore

\* The loop over initial_chunks; a record that does not validate raises,
\* and the except clause raises the service's own exception.
Aggregate ==
    /\ pc = "aggregate"
    /\ LET r == AggregateChunks(initial_chunks, top_doc_fids, 1, document_context)
       IN  /\ document_context' = r.ctx
           /\ pc' = IF r.ok THEN "emit" ELSE "raised"
           /\ error' = IF r.ok THEN error ELSE Wrapped(ValidationError)
    /\ UNCHANGED <<search, top_n_documents, initial_chunks, top_doc_fids,
                   final_records, returned, upstreamCalls, upstreamError, ref, warned>>
    /\ UNCHANGED outsideCore

\* The loop over top_doc_fids, and return final_records.
Emit ==
    /\ pc = "emit"
    /\ final_records' = BuildFinalRecords(top_doc_fids, document_context, 1)
    /\ returned' = final_records'
    /\ warned' = SkippedFids(top_doc_fids, document_context)
    /\ pc' = "returned"
    /\ UNCHANGED <<search, top_n_documents, initial_chunks, top_doc_fids,
                   document_context, error, upstreamCalls, upstreamError, ref>>
    /\ UNCHANGED outsideCore

Next ==
    \/ Call
    \/ SimilaritySearchReturns(FidVals, RegVals)
    \/ SimilaritySearchRaises
    \/ Rank
    \/ Aggregate
    \/ Emit

Spec == Init /\ [][Next]_vars

\* ------------------------------------------------- the history of SpecDet
\* The fids and pcr_reg_no values of the responses of SpecDet.
DetFids == {"A", "B"}
DetRegs == {"R1"}

\* The call just completed, as the history keeps it.
CompletedCall ==
    [age |-> 0, search |-> search, top_n |-> top_n_documents,
     chunks |-> initial_chunks, upstream |-> upstreamError,
     pc |-> pc, returned |-> returned, error |-> error]

\* An observer keeps the completed call for later comparison.
Remember ==
    /\ pc \in Done
    /\ ref = NoRef
    /\ ref' = CompletedCall
    /\ UNCHANGED <<pc, search, top_n_documents, initial_chunks, top_doc_fids,
                   document_context, final_records, returned, error,
                   upstreamCalls, upstreamError, warned>>
    /\ UNCHANGED outsideCore

NextDet ==
    \/ Call
    \/ SimilaritySearchReturns(DetFids, DetRegs)
    \/ SimilaritySearchRaises
    \/ Rank
    \/ Aggregate
    \/ Emit
    \/ Remember

SpecDet == Init /\ [][NextDet]_vars

\* ------------------------------------------------------- claims: helpers
\* The fids present in the upstream response.
PresentFids == { initial_chunks[i].fid : i \in DOMAIN initial_chunks } \ {None, ""}
\* The number of passages of the response that carry fid f.
PassageCount(f) ==
    Cardinality({ i \in DOMAIN initial_chunks : initial_chunks[i].fid = f })
\* The positions of the passages carrying fid f.
PositionsOf(f) == { i \in DOMAIN initial_chunks : initial_chunks[i].fid = f }
\* The k-th smallest element of a set of numbers.
RECURSIVE KthSmallest(_, _)
KthSmallest(S, k) ==
    LET least == CHOOSE x \in S : \A y \in S : x <= y
    IN  IF k = 1 THEN least ELSE KthSmallest(S \ {least}, k - 1)
\* The states in which the ranking of this call has been computed.
Ranked ==
    \/ pc \in {"aggregate", "emit"}
    \/ pc = "returned" /\ initial_chunks # <<>>
    \/ pc = "raised" /\ upstreamError = NoError
\* The position of fid f in the ranking (0: not ranked).
RankOf(f) ==
    IF \E i \in DOMAIN top_doc_fids : top_doc_fids[i] = f
    THEN CHOOSE i \in DOMAIN top_doc_fids : top_doc_fids[i] = f
    ELSE 0
Min(a, b) == IF a < b THEN a ELSE b

\* C1: the ranking has no duplicate entry, is no longer than top_n nor than
\* the number of distinct fids of the candidates, and every entry is the fid
\* of some candidate passage.
C1_RankingBounded ==
    Ranked =>
        /\ \A i, j \in DOMAIN top_doc_fids :
               i # j => top_doc_fids[i] # top_doc_fids[j]
        /\ Len(top_doc_fids) <= top_n_documents
        /\ Len(top_doc_fids) <= Cardinality(PresentFids)
        /\ \A i \in DOMAIN top_doc_fids : top_doc_fids[i] \in PresentFids

\* C1 witness: a ranking cut by top_n: three distinct fids, two ranked.
C1_Witness ==
    /\ pc = "aggregate"
    /\ Cardinality(PresentFids) = 3
    /\ top_n_documents = 2
    /\ Len(top_doc_fids) = 2

\* C2: the ranking holds the top_n fids of the highest passage counts: as
\* many as top_n (or all fids when fewer), each with a count at least that
\* of every fid left out, in non-increasing count order.
C2_HighestCounts ==
    Ranked =>
        /\ Len(top_doc_fids) = Min(top_n_documents, Cardinality(PresentFids))
        /\ \A i \in DOMAIN top_doc_fids :
               \A f \in PresentFids \ Range(top_doc_fids) :
                   PassageCount(top_doc_fids[i]) >= PassageCount(f)
        /\ \A i, j \in DOMAIN top_doc_fids :
               i < j => PassageCount(top_doc_fids[i]) >= PassageCount(top_doc_fids[j])

\* C2 witness: B comes first but A has more passages, and top_n = 1 keeps A.
C2_Witness ==
    /\ pc = "aggregate"
    /\ top_n_documents = 1
    /\ Len(initial_chunks) = 3
    /\ initial_chunks[1].fid = "B"
    /\ PassageCount("A") = 2
    /\ top_doc_fids = <<"A">>

\* The candidates without the passages that have no fid.
HasFid(chunk) == Truthy(chunk.fid)
WithoutFidless(chunks) == SelectSeq(chunks, HasFid)
\* What a call on the response chunks ranks and hands back.
OutcomeOn(chunks, n) ==
    IF chunks = <<>>
    THEN [pc |-> "returned", top |-> <<>>, returned |-> <<>>]
    ELSE LET top == get_top_n_document_fids(chunks, n)
             r == AggregateChunks(chunks, top, 1, EmptyContext)
         IN  [pc |-> IF r.ok THEN "returned" ELSE "raised",
              top |-> top,
              returned |-> IF r.ok THEN BuildFinalRecords(top, r.ctx, 1) ELSE <<>>]
\* The positions of the passages without fid.
FidlessPositions == { i \in DOMAIN initial_chunks : ~HasFid(initial_chunks[i]) }

\* C3: passages without fid have no effect: the ranking and the records of a
\* call are those of the response without its fid-less passages, and no
\* text of a fid-less passage is in any record.
C3_FidlessIgnored ==
    (pc \in Done /\ Truthy(search) /\ upstreamError = NoError) =>
        /\ [pc |-> pc, top |-> top_doc_fids, returned |-> returned]
               = OutcomeOn(WithoutFidless(initial_chunks), top_n_documents)
        /\ \A k \in DOMAIN returned : \A i \in FidlessPositions :
               /\ initial_chunks[i].page_content \notin Range(returned[k].page_contents)
               /\ \A t \in Range(initial_chunks[i].page_content) :
                      t \notin Range(returned[k].page_content)

\* C3 witness: a record is returned from a response whose first passage has
\* no fid and no pcr_reg_no.
C3_Witness ==
    /\ pc = "returned"
    /\ Len(initial_chunks) = 3
    /\ initial_chunks[1].fid = None
    /\ initial_chunks[1].pcr_reg_no = None
    /\ initial_chunks[3].fid = None
    /\ Len(returned) = 1

\* C4: the records are in rank order: of two returned records, the one
\* whose fid is earlier in the ranking is earlier in the output.
C4_RankOrder ==
    pc = "returned" =>
        /\ \A k \in DOMAIN returned : RankOf(returned[k].fid) # 0
        /\ \A k, l \in DOMAIN returned :
               k < l => RankOf(returned[k].fid) < RankOf(returned[l].fid)

\* C4 witness: rank order differs from encounter order: the first passage
\* belongs to the document returned second.
C4_Witness ==
    /\ pc = "returned"
    /\ Len(returned) = 2
    /\ initial_chunks[1].fid = returned[2].fid

\* C5: the aggregated text of a record is the texts of all passages carrying
\* its fid, each once, in candidate order, with the separator between
\* consecutive texts.
C5_AggregatedText ==
    pc = "returned" =>
        \A k \in DOMAIN returned :
            LET P == PositionsOf(returned[k].fid)
                n == Cardinality(P)
                text == returned[k].page_content
            IN  /\ n >= 1
                /\ Len(text) = 2 * n - 1
                /\ \A q \in 1..n :
                       <<text[2 * q - 1]>> = initial_chunks[KthSmallest(P, q)].page_content
                /\ \A q \in 1..(n - 1) : <<text[2 * q]>> = Separator

\* C5 witness: a record joins two passages that are not adjacent in the
\* response.
C5_Witness ==
    /\ pc = "returned"
    /\ \E k \in DOMAIN returned :
           /\ PositionsOf(returned[k].fid) = {1, 3}
           /\ Truthy(initial_chunks[2].fid)

\* C6: the metadata of a record is that of the first passage carrying its
\* fid; later passages leave it as it is.
C6_FirstMetadata ==
    pc = "returned" =>
        \A k \in DOMAIN returned :
            LET first == KthSmallest(PositionsOf(returned[k].fid), 1)
            IN  /\ returned[k].pcr_reg_no = initial_chunks[first].pcr_reg_no
                /\ returned[k].fid = initial_chunks[first].fid

\* C6 witness: a record whose document has a later passage with other
\* metadata.
C6_Witness ==
    /\ pc = "returned"
    /\ \E k \in DOMAIN returned :
           \E i \in PositionsOf(returned[k].fid) :
               initial_chunks[i].pcr_reg_no # returned[k].pcr_reg_no

\* C7: an empty or absent query returns the empty list, raises nothing and
\* makes no call of similarity_search.
C7_EmptyQuery ==
    (pc # "idle" /\ ~Truthy(search)) =>
        /\ pc = "returned"
        /\ returned = <<>>
        /\ error = NoError
        /\ upstreamCalls = 0
        /\ initial_chunks = <<>>

\* C7 witness: a call with the empty string has returned.
C7_Witness == pc = "returned" /\ search = ""

\* C8 as stated: the error the call raises after an upstream failure is the
\* upstream error itself, unchanged.
C8_UpstreamErrorUnchanged ==
    (pc = "raised" /\ upstreamError # NoError) => error = upstreamError

\* C8 as amended: an upstream failure is not swallowed: the call raises, and
\* what it raises is a plain Exception whose message is the fixed prefix
\* followed by the upstream error's message.
C8_UpstreamErrorWrapped ==
    upstreamError # NoError =>
        /\ pc = "raised"
        /\ returned = <<>>
        /\ error.type = "Exception"
        /\ error.message = ErrorPrefix \o upstreamError.message
        /\ error # upstreamError

\* C8 witness: the call has raised after an upstream timeout.
C8_Witness == pc = "raised" /\ upstreamError.type = "Timeout"

\* C9: a call with a non-empty query invokes similarity_search exactly once,
\* before the ranking and the aggregation, and not again, also after it
\* failed.
C9_OneUpstreamCall ==
    /\ pc \in {"idle", "search"} => upstreamCalls = 0
    /\ pc \in {"rank", "aggregate", "emit"} => upstreamCalls = 1
    /\ pc \in Done => upstreamCalls = (IF Truthy(search) THEN 1 ELSE 0)

\* C9 witness: the call has ended on an upstream failure after one
\* invocation.
C9_Witness ==
    /\ pc = "raised"
    /\ upstreamError.type = "NotInitialized"
    /\ upstreamCalls = 1

\* C10: a call with the arguments and the upstream response of an earlier
\* call ends as that call did: same records in the same order, or the same
\* error, whatever calls ran in between.
C10_Deterministic ==
    ( /\ ref # NoRef
      /\ ref.age >= 1
      /\ pc \in Done
      /\ ref.search = search
      /\ ref.top_n = top_n_documents
      /\ ref.chunks = initial_chunks
      /\ ref.upstream = upstreamError )
    => /\ ref.pc = pc
       /\ ref.returned = returned
       /\ ref.error = error

\* C10 witness: two records are returned again, with a call in between.
C10_Witness ==
    /\ ref.age = 2
    /\ pc = "returned"
    /\ ref.search = search
    /\ ref.top_n = top_n_documents
    /\ ref.chunks = initial_chunks
    /\ Len(returned) = 2

\* C11: no two records of one returned list have the same fid.
C11_UniqueFids ==
    pc = "returned" =>
        \A k, l \in DOMAIN returned :
            k # l => returned[k].fid # returned[l].fid

\* C11 witness: two records are returned and one of them joins two passages.
C11_Witness ==
    /\ pc = "returned"
    /\ Len(returned) = 2
    /\ Len(initial_chunks) = 3
    /\ Cardinality(PresentFids) = 2
    /\ FidlessPositions = {}

C14_AnomalyNeverFails ==
    (pc \in Done /\ Truthy(search) /\ upstreamError = NoError) =>
        /\ pc = "returned"
        /\ \A i \in DOMAIN top_doc_fids :
               Validates(initial_chunks[KthSmallest(PositionsOf(top_doc_fids[i]), 1)])
                   => \E k \in DOMAIN returned : returned[k].fid = top_doc_fids[i]

\* C15: an empty candidate set is no error: the ranking of the empty
\* sequence is empty, and a call whose upstream search returned no passage
\* returns the empty list.
C15_EmptyCandidates ==
    /\ \A n \in TopNs : get_top_n_document_fids(<<>>, n) = <<>>
    /\ (Truthy(search) /\ upstreamCalls = 1 /\ upstreamError = NoError
            /\ initial_chunks = <<>>)
           => (pc = "returned" /\ returned = <<>> /\ error = NoError)

\* C15 witness: the upstream search was invoked and returned no passage.
C15_Witness ==
    /\ pc = "returned"
    /\ Truthy(search)
    /\ upstreamCalls = 1
    /\ initial_chunks = <<>>

\* ------------------------------------- the aggregation step on any inputs
\* The fids and pcr_reg_no values of the candidates of SpecAgg.
AggFids == {"A", "B", None}
AggRegs == {"R1", None}

\* The lists of at most n fids without repetition.
SelectedLists(n) ==
    { sel \in UNION { [1..k -> Fids] : k \in 0..n } :
        \A i, j \in DOMAIN sel : i # j => sel[i] # sel[j] }

\* The aggregation (lines 107-156) is entered with a candidate sequence and
\* any list of selected fids, also one naming a document without passage.
StartAggregation ==
    /\ pc = "idle"
    /\ \E n \in 0..MaxLen : \E m \in [1..n -> AggFids \X AggRegs] :
       \E sel \in SelectedLists(MaxTopN) :
        /\ initial_chunks' = Response(n, m)
        /\ top_doc_fids' = sel
        /\ document_context' = EmptyContext
        /\ final_records' = <<>>
        /\ returned' = <<>>
        /\ error' = NoError
        /\ warned' = <<>>
        /\ pc' = "aggregate"
        /\ UNCHANGED <<search, top_n_documents, upstreamCalls, upstreamError, ref>>
    /\ UNCHANGED outsideCore

NextAgg ==
    \/ StartAggregation
    \/ Aggregate
    \/ Emit

SpecAgg == Init /\ [][NextAgg]_vars

\* The selected fids that have a passage among the candidates, in order.
HasPassage(f) == PassageCount(f) >= 1
WithPassage(sel) == SelectSeq(sel, HasPassage)
LacksPassage(f) == PassageCount(f) = 0

\* The returned records are those of the selected fids that have a passage,
\* in the order of the selection, and the others are the ones warned about.
RecordPerAttributedFid ==
    /\ Len(returned) = Len(WithPassage(top_doc_fids))
    /\ \A k \in DOMAIN returned : returned[k].fid = WithPassage(top_doc_fids)[k]
    /\ warned = SelectSeq(top_doc_fids, LacksPassage)

\* Whenever the aggregation returns, it returns exactly those records.
RecordPerAttributedFidWhenReturned ==
    pc = "returned" => RecordPerAttributedFid

\* A selected fid without passage is skipped with a warning and the record
\* of the other selected fid is returned.
SkippedWithWarning ==
    /\ pc = "returned"
    /\ Len(top_doc_fids) = 2
    /\ warned = <<top_doc_fids[1]>>
    /\ Len(returned) = 1
    /\ returned[1].fid = top_doc_fids[2]

\* C13: for every candidate set, the aggregation returns one record for
\* every selected fid that has a passage among the candidates, in the order
\* of the selection; a selected fid without passage is skipped with a
\* warning and the records of the others are returned.
C13_RecordPerAttributedFid ==
    pc \in Done => (pc = "returned" /\ RecordPerAttributedFid)

\* ------------------------------------------------------ concurrent calls
\* A variant in which every call accumulates into one module-level dict.
SharedContext(c) == "c1"

\* document_context = {} creates a dict of the call's own.
ContextOf(c) == c

\* Call c starts: its arguments are bound and the query is tested.
ConcCall(c) ==
    /\ frames[c].pc = "idle"
    /\ \E s \in Queries, n \in TopNs :
        frames' = [frames EXCEPT ![c] =
                      [NewFrame EXCEPT !.search = s, !.top_n_documents = n,
                                       !.pc = IF Truthy(s) THEN "search" ELSE "returned"]]
    /\ UNCHANGED <<contexts, coreVars, apiVars, appVars>>

\* similarity_search returns to call c.
ConcSimilaritySearchReturns(c) ==
    /\ frames[c].pc = "search"
    /\ \E n \in 0..MaxLen : \E m \in [1..n -> DetFids \X DetRegs] :
        frames' = [frames EXCEPT ![c].initial_chunks = Response(n, m),
                                 ![c].pc = IF n = 0 THEN "returned" ELSE "rank"]
    /\ UNCHANGED <<contexts, coreVars, apiVars, appVars>>

\* similarity_search raises in call c.
ConcSimilaritySearchRaises(c) ==
    /\ frames[c].pc = "search"
    /\ \E e \in UpstreamErrors :
        frames' = [frames EXCEPT ![c].upstreamError = e,
                                 ![c].error = Wrapped(e),
                                 ![c].pc = "raised"]
    /\ UNCHANGED <<contexts, coreVars, apiVars, appVars>>

\* Call c ranks its candidates and creates its document_context.
ConcRank(c) ==
    /\ frames[c].pc = "rank"
    /\ frames' = [frames EXCEPT
                    ![c].top_doc_fids =
                        get_top_n_document_fids(frames[c].initial_chunks,
                                                frames[c].top_n_documents),
                    ![c].pc = "aggregate"]
    /\ contexts' = [contexts EXCEPT ![ContextOf(c)] = EmptyContext]
    /\ UNCHANGED <<coreVars, apiVars, appVars>>

\* Call c runs the loop over its candidates.
ConcAggregate(c) ==
    /\ frames[c].pc = "aggregate"
    /\ LET r == AggregateChunks(frames[c].initial_chunks, frames[c].top_doc_fids,
                                1, contexts[ContextOf(c)])
       IN  /\ contexts' = [contexts EXCEPT ![ContextOf(c)] = r.ctx]
           /\ frames' = [frames EXCEPT
                           ![c].pc = IF r.ok THEN "emit" ELSE "raised",
                           ![c].error = IF r.ok THEN @ ELSE Wrapped(ValidationError)]
    /\ UNCHANGED <<coreVars, apiVars, appVars>>

\* Call c runs the loop over its ranked fids and returns.
ConcEmit(c) ==
    /\ frames[c].pc = "emit"
    /\ frames' = [frames EXCEPT
                    ![c].returned = BuildFinalRecords(frames[c].top_doc_fids,
                                                      contexts[ContextOf(c)], 1),
                    ![c].pc = "returned"]
    /\ UNCHANGED <<contexts, coreVars, apiVars, appVars>>

NextConc ==
    \E c \in Calls :
        \/ ConcCall(c)
        \/ ConcSimilaritySearchReturns(c)
        \/ ConcSimilaritySearchRaises(c)
        \/ ConcRank(c)
        \/ ConcAggregate(c)
        \/ ConcEmit(c)

SpecConc == Init /\ [][NextConc]_vars

\* What call c has ranked and handed back.
OutcomeOf(c) ==
    [pc |-> frames[c].pc, top |-> frames[c].top_doc_fids,
     returned |-> frames[c].returned]

\* C16: concurrent calls are independent: under every interleaving of the
\* steps of the calls, the accumulator a call is about to read holds what
\* the call alone accumulates from its own candidates, and a finished call
\* has the ranking and the records it has when run alone on them.
C16_ConcurrentIndependent ==
    \A c \in Calls :
        /\ frames[c].pc = "emit" =>
              contexts[ContextOf(c)] =
                  AggregateChunks(frames[c].initial_chunks, frames[c].top_doc_fids,
                                  1, EmptyContext).ctx
        /\ (frames[c].pc \in Done /\ Truthy(frames[c].search)
              /\ frames[c].upstreamError = NoError) =>
              OutcomeOf(c) = OutcomeOn(frames[c].initial_chunks,
                                       frames[c].top_n_documents)

\* C16 witness: c2 has run from ranking to return while c1, on other
\* candidates, stood between its aggregation and its final loop.
C16_Witness ==
    /\ frames["c1"].pc = "emit"
    /\ frames["c2"].pc = "returned"
    /\ Len(frames["c1"].initial_chunks) = 3
    /\ Len(frames["c2"].returned) = 2
    /\ frames["c1"].top_doc_fids = <<"A">>
    /\ frames["c2"].top_doc_fids = <<"B", "A">>

\* ------------------------------------------------------ the index manager
\* How many times the index may be loaded before the exploration stops.
MaxLoads == 2
\* What the load of the index meets: the directory and the model are there,
\* the directory is missing, or the embeddings or the store fail to load.
InitOutcomes == {"ok", "FileNotFoundError", "LoadError"}

\* ChromaDBManager(): the one instance is created on the first construction.
ChromaDBManager(m) ==
    IF m.instances = 0 THEN [m EXCEPT !.instances = 1, !.db = 0] ELSE m

\* A variant that loads the index whether or not it is loaded.
initialize_db_again(m, env) ==
    IF env # "ok"
    THEN [manager |-> m, raised |-> env]
    ELSE [manager |-> [m EXCEPT !.loads = @ + 1, !.db = m.loads + 1],
          raised |-> None]

\* initialize_db: nothing when loaded; otherwise the load, which may raise.
\* The handle is numbered by the load that produced it.
initialize_db(m, env) ==
    IF m.db # 0
    THEN [manager |-> m, raised |-> None]
    ELSE IF env # "ok"
         THEN [manager |-> m, raised |-> env]
         ELSE [manager |-> [m EXCEPT !.loads = @ + 1, !.db = m.loads + 1],
               raised |-> None]

\* get_db: the handle, or an exception while there is none.
get_db(m) ==
    IF m.db = 0
    THEN [raised |-> "Exception", handle |-> 0]
    ELSE [raised |-> None, handle |-> m.db]

\* No request is being handled and the last response has been sent.
Quiet == request = NoRequest

\* Some module constructs the manager (the first time: the import).
Construct ==
    /\ Quiet
    /\ manager' = ChromaDBManager(manager)
    /\ request' = [NoRequest EXCEPT !.handler = "ChromaDBManager"]
    /\ response' = [NoResponse EXCEPT !.kind = "instance"]
    /\ UNCHANGED <<sdk, SESSIONS, coreVars, concVars, appVars>>

\* Some caller runs chroma_manager.initialize_db().
InitializeDb ==
    /\ Quiet
    /\ manager.instances = 1
    /\ manager.loads < MaxLoads
    /\ \E env \in InitOutcomes :
        LET r == initialize_db(manager, env)
        IN  /\ manager' = r.manager
            /\ request' = [NoRequest EXCEPT
                             !.handler = "initialize_db",
                             !.index = IF manager.db # 0 THEN "available"
                                       ELSE "unavailable"]
            /\ response' = IF r.raised # None
                           THEN [NoResponse EXCEPT !.kind = "raised",
                                                   !.detail = <<r.raised>>]
                           ELSE [NoResponse EXCEPT !.kind = "done"]
    /\ UNCHANGED <<sdk, SESSIONS, coreVars, concVars, appVars>>

\* Some caller runs chroma_manager.get_db().
GetDb ==
    /\ Quiet
    /\ manager.instances = 1
    /\ LET g == get_db(manager)
       IN  /\ request' = [NoRequest EXCEPT
                            !.handler = "get_db",
                            !.index = IF manager.db # 0 THEN "available"
                                      ELSE "unavailable"]
           /\ response' = IF g.raised # None
                          THEN [NoResponse EXCEPT !.kind = "raised",
                                                  !.detail = <<g.raised>>]
                          ELSE [NoResponse EXCEPT !.kind = "handle",
                                                  !.handle = g.handle]
    /\ UNCHANGED <<manager, sdk, SESSIONS, coreVars, concVars, appVars>>

\* The call has returned, or the response has been sent: the frame is gone.
Deliver ==
    /\ request.pc = "idle"
    /\ request.handler # "none"
    /\ request' = NoRequest
    /\ response' = NoResponse
    /\ UNCHANGED <<manager, sdk, SESSIONS, coreVars, concVars, appVars>>

\* --------------------------------------------------------- the handlers
\* The longest upstream response a handler's search receives.
MaxApiLen == 2
\* The longest session history a request is still accepted for.
MaxHistory == 2
\* The fids and pcr_reg_no values of the responses the handlers' searches get.
ApiFids == {"A", "B"}
ApiRegs == {"R1", None}
\* The skip and limit query parameters tried.
Skips == {0, 1}
Limits == {1, 2}
\* The default of top_n_documents, which no handler overrides.
DefaultTopN == 10
\* The limit of the tool call when the model names none.
DefaultToolLimit == 3

\* The service call as one step: the guard on the query, the upstream call
\* (up.error: what it raised, up.chunks: what it returned), the ranking, the
\* aggregation and the final loop. skip and limit are accepted and not used.
get_pcr_records_from_chroma(skip, limit, s, up, n) ==
    IF ~Truthy(s)
    THEN [ok |-> TRUE, records |-> <<>>, error |-> NoError]
    ELSE IF up.error # NoError
    THEN [ok |-> FALSE, records |-> <<>>, error |-> Wrapped(up.error)]
    ELSE IF up.chunks = <<>>
    THEN [ok |-> TRUE, records |-> <<>>, error |-> NoError]
    ELSE LET top == get_top_n_document_fids(up.chunks, n)
             r == AggregateChunks(up.chunks, top, 1, EmptyContext)
         IN  IF r.ok
             THEN [ok |-> TRUE, records |-> BuildFinalRecords(top, r.ctx, 1),
                   error |-> NoError]
             ELSE [ok |-> FALSE, records |-> <<>>,
                   error |-> Wrapped(ValidationError)]

\* The body of the framework's answer to an exception no handler caught.
InternalServerError == <<"Internal Server Error">>
\* The detail prefix of the records handler's HTTPException.
RouterErrorPrefix == <<"server error: ">>
\* The detail of the chat handler's HTTPException for a non-RuntimeError.
ChatInternalError == <<"Internal server error">>
\* The chat handler's fixed replies and session notes of the tool path.
IndexUnavailableReply == <<"index unavailable, try again later">>
IndexUnavailableNote == <<"(tool failed: index unavailable)">>
RetrievalErrorReply == <<"retrieval failed">>
RetrievalErrorNote == <<"(tool failed)">>

\* The module probes the SDK when it is imported.
ImportProbe ==
    /\ sdk = "unprobed"
    /\ manager.instances = 1
    /\ \E found \in {"available", "missing"} : sdk' = found
    /\ UNCHANGED <<manager, SESSIONS, request, response,
                   coreVars, concVars, appVars>>

\* GET /pcr_records/?skip=..&limit=..&search=..: the dependency get_chroma_db
\* raises outside the handler's try when there is no handle; otherwise the
\* handler returns the records of the service call or maps its exception.
GetPcrRecords ==
    /\ Quiet
    /\ manager.instances = 1
    /\ \E sk \in Skips, li \in Limits, s \in Queries :
        LET g == get_db(manager)
            req == [NoRequest EXCEPT !.handler = "get_pcr_records",
                                     !.skip = sk, !.limit = li, !.search = s]
        IN  IF g.raised # None
            THEN /\ request' = [req EXCEPT !.index = "unavailable"]
                 /\ response' = [NoResponse EXCEPT !.status = 500, !.kind = "error",
                                                   !.detail = InternalServerError]
            ELSE \E e \in UpstreamErrors \cup {NoError} :
                 \E n \in 0..MaxApiLen : \E m \in [1..n -> ApiFids \X ApiRegs] :
                    /\ (e # NoError \/ ~Truthy(s)) => n = 0
                    /\ ~Truthy(s) => e = NoError
                    /\ LET up == [error |-> e, chunks |-> Response(n, m)]
                           r == get_pcr_records_from_chroma(sk, li, s, up, DefaultTopN)
                       IN  /\ request' = [req EXCEPT !.index = "available",
                                                     !.chunks = up.chunks,
                                                     !.records = r.records]
                           /\ response' =
                                IF r.ok
                                THEN [NoResponse EXCEPT !.status = 200,
                                                        !.kind = "records",
                                                        !.records = r.records]
                                ELSE [NoResponse EXCEPT !.status = 500,
                                                        !.kind = "error",
                                                        !.detail = RouterErrorPrefix
                                                                   \o r.error.message]
    /\ UNCHANGED <<manager, sdk, SESSIONS, coreVars, concVars, appVars>>

\* The session id made from the clock when the request names none.
GeneratedSid == "t1"
\* The session ids a request may name.
RequestSids == {None, "s1"}
\* The message of a request.
UserMessage == [role |-> "user", content |-> <<"question">>]
AssistantMessage(text) == [role |-> "assistant", content |-> text]
\* A line of white space only.
Blank == ""
\* The texts the model answers with, as lines.
ModelTexts ==
    {<<"answer">>, <<"pcr_chroma_search", "answer">>,
     <<Blank, "tool executed", "PCR_CHROMA_SEARCH", "answer", Blank>>}
\* The ways the SDK's calls fail.
SdkErrors == {"RuntimeError", "Exception"}

\* The number of session messages a prompt takes.
PromptWindow == 40
\* The bodies of the requests: one message, or more messages than the
\* window holds, the first of them without a role and the second an earlier
\* turn the client sends with the role "assistant".
LongBody ==
    [i \in 1..(PromptWindow + 1) |->
        IF i = 1 THEN [role |-> "", content |-> <<"opening">>]
        ELSE IF i = 2
             THEN [role |-> "assistant", content |-> <<"pcr_chroma_search">>]
             ELSE UserMessage]
RequestBodies == {<<UserMessage>>, LongBody}
\* {"role": m.role or "user", "content": m.content}
Stored(m) == [role |-> IF m.role = "" THEN "user" ELSE m.role,
              content |-> m.content]
\* A variant that starts the history over with the incoming messages.
ReplaceAll(S, sid, msgs) ==
    [S EXCEPT ![sid] = [i \in 1..Len(msgs) |-> Stored(msgs[i])]]
\* for m in body.messages: SESSIONS[sid].append(...)
AppendAll(S, sid, msgs) ==
    [S EXCEPT ![sid] = @ \o [i \in 1..Len(msgs) |-> Stored(msgs[i])]]
\* SESSIONS[sid][-40:]
Window(h) ==
    SubSeq(h, IF Len(h) > PromptWindow THEN Len(h) - PromptWindow + 1 ELSE 1,
           Len(h))
\* The prompt of the first call: the system prompt and the window.
ChatPrompt(h) == [kind |-> "chat", messages |-> Window(h), results |-> <<>>]
\* The prompt of the second call: the system prompt and the tool's result.
FollowupPrompt(records) ==
    [kind |-> "followup", messages |-> <<>>, results |-> records]

\* if sid not in SESSIONS: SESSIONS[sid] = []
WithSession(S, sid) ==
    [k \in DOMAIN S \cup {sid} |-> IF k \in DOMAIN S THEN S[k] ELSE <<>>]
\* SESSIONS[sid].append(msg)
AppendTo(S, sid, msg) == [S EXCEPT ![sid] = Append(@, msg)]

\* re.search(r"pcr_chroma_search", ln, re.IGNORECASE)
NamesTool(line) == line \in {"pcr_chroma_search", "PCR_CHROMA_SEARCH"}
\* re.search(r"工具[^\n]*已執行", ln)
ReportsRun(line) == line = "tool executed"
\* A variant of the test that compares the letters as they are.
KeptLineSameCase(line) == line # "pcr_chroma_search" /\ ~ReportsRun(line)
\* sanitize_reply: the lines naming the tool or reporting its run are dropped.
MentionsTool(line) == NamesTool(line) \/ ReportsRun(line)
KeptLine(line) == ~MentionsTool(line)
\* str.strip() on the joined lines: the blank lines at the ends go.
RECURSIVE StripLeft(_)
StripLeft(text) ==
    IF text = <<>> THEN text
    ELSE IF Head(text) = Blank THEN StripLeft(Tail(text)) ELSE text
RECURSIVE StripRight(_)
StripRight(text) ==
    IF text = <<>> THEN text
    ELSE IF text[Len(text)] = Blank
         THEN StripRight(SubSeq(text, 1, Len(text) - 1)) ELSE text
Strip(text) == StripRight(StripLeft(text))
sanitize_reply(text) ==
    IF text = <<>> THEN text ELSE Strip(SelectSeq(text, KeptLine))

\* The HTTPException of the handler's except clauses.
ChatError(e) ==
    [NoResponse EXCEPT !.status = 500, !.kind = "error",
                       !.detail = IF e = "RuntimeError" THEN <<e>>
                                  ELSE ChatInternalError]
\* return {"reply": text, "session_id": sid}
ChatReply(text, sid) ==
    [NoResponse EXCEPT !.status = 200, !.kind = "chat", !.reply = text,
                       !.session_id = sid]
\* The handler ends without a return statement: the body is null.
NullBody == [NoResponse EXCEPT !.status = 200, !.kind = "null"]

\* POST /api/chat: the session is found or made, the message stored, and the
\* availability of the SDK is tested; without the SDK the try block ends.
\* The requests without a session id come at different milliseconds, so the
\* id made from the clock is a new one; a session is used again by sending
\* its id.
ChatStart ==
    /\ Quiet
    /\ manager.instances = 1
    /\ sdk # "unprobed"
    /\ \E given \in RequestSids, body \in RequestBodies :
        LET sid == IF Truthy(given) THEN given ELSE GeneratedSid
            S == WithSession(SESSIONS, sid)
            req == [NoRequest EXCEPT !.handler = "api_chat", !.sid = sid,
                                     !.messages = body, !.had = Len(S[sid])]
        IN  /\ Truthy(given) \/ GeneratedSid \notin DOMAIN SESSIONS
            /\ Len(S[sid]) <= MaxHistory
            /\ SESSIONS' = AppendAll(S, sid, body)
            /\ IF sdk = "available"
               THEN /\ request' = [req EXCEPT !.pc = "model",
                                              !.prompt = ChatPrompt(SESSIONS'[sid])]
                    /\ response' = NoResponse
               ELSE /\ request' = [req EXCEPT
                                      !.prompt = [ChatPrompt(SESSIONS'[sid])
                                                     EXCEPT !.kind = "unsent"]]
                    /\ response' = NullBody
    /\ UNCHANGED <<manager, sdk, coreVars, concVars, appVars>>

\* The first generate_content call: it raises, or answers with text, or
\* asks for pcr_chroma_search with a search text and perhaps a limit.
ChatModel ==
    /\ request.pc = "model"
    /\ \/ \E e \in SdkErrors :
            /\ response' = ChatError(e)
            /\ request' = [request EXCEPT !.pc = "idle"]
            /\ UNCHANGED SESSIONS
       \/ \E t \in ModelTexts :
            /\ SESSIONS' = AppendTo(SESSIONS, request.sid,
                                    AssistantMessage(sanitize_reply(t)))
            /\ response' = ChatReply(sanitize_reply(t), request.sid)
            /\ request' = [request EXCEPT !.pc = "idle", !.text = t,
                                          !.answered = TRUE]
       \/ \E q \in {"", "pcr"}, li \in Limits \cup {0} :
            /\ request' = [request EXCEPT
                             !.pc = "ensure_chroma",
                             !.search = q,
                             !.limit = IF li # 0 THEN li ELSE DefaultToolLimit]
            /\ UNCHANGED <<SESSIONS, response>>
    /\ UNCHANGED <<manager, sdk, coreVars, concVars, appVars>>

\* A variant that lets the failure of the load reach the except clauses.
ChatEnsureChromaRaising ==
    /\ request.pc = "ensure_chroma"
    /\ IF manager.db = 0
       THEN \E env \in InitOutcomes :
              LET r == initialize_db(manager, env)
              IN  /\ manager' = r.manager
                  /\ IF r.raised # None
                     THEN /\ response' = ChatError("Exception")
                          /\ request' = [request EXCEPT !.pc = "idle",
                                                        !.index = "unavailable"]
                     ELSE /\ request' = [request EXCEPT !.pc = "retrieve",
                                                        !.index = "available"]
                          /\ UNCHANGED response
       ELSE /\ request' = [request EXCEPT !.pc = "retrieve", !.index = "available"]
            /\ UNCHANGED <<manager, response>>
    /\ UNCHANGED <<SESSIONS, sdk, coreVars, concVars, appVars>>

\* The tool path makes sure of the index: without a handle it runs
\* initialize_db, and answers with the fixed reply when that raises.
ChatEnsureChroma ==
    /\ request.pc = "ensure_chroma"
    /\ IF manager.db = 0
       THEN \E env \in InitOutcomes :
              LET r == initialize_db(manager, env)
              IN  /\ manager' = r.manager
                  /\ IF r.raised # None
                     THEN /\ SESSIONS' = AppendTo(SESSIONS, request.sid,
                                             AssistantMessage(IndexUnavailableNote))
                          /\ response' = ChatReply(IndexUnavailableReply, request.sid)
                          /\ request' = [request EXCEPT !.pc = "idle",
                                                        !.index = "unavailable"]
                     ELSE /\ request' = [request EXCEPT !.pc = "retrieve",
                                                        !.index = "available"]
                          /\ UNCHANGED <<SESSIONS, response>>
       ELSE /\ request' = [request EXCEPT !.pc = "retrieve", !.index = "available"]
            /\ UNCHANGED <<manager, SESSIONS, response>>
    /\ UNCHANGED <<sdk, coreVars, concVars, appVars>>

\* The tool path runs the search with skip 0 and the limit of the call; an
\* exception becomes the fixed reply, the records become the tool's result.
ChatRetrieve ==
    /\ request.pc = "retrieve"
    /\ \E e \in UpstreamErrors \cup {NoError} :
       \E n \in 0..MaxApiLen : \E m \in [1..n -> ApiFids \X ApiRegs] :
        /\ (e # NoError \/ ~Truthy(request.search)) => n = 0
        /\ ~Truthy(request.search) => e = NoError
        /\ LET up == [error |-> e, chunks |-> Response(n, m)]
               r == get_pcr_records_from_chroma(0, request.limit, request.search,
                                                up, DefaultTopN)
           IN  IF r.ok
               THEN /\ request' = [request EXCEPT !.pc = "followup",
                                                  !.chunks = up.chunks,
                                                  !.records = r.records,
                                                  !.prompt = FollowupPrompt(r.records)]
                    /\ UNCHANGED <<SESSIONS, response>>
               ELSE /\ SESSIONS' = AppendTo(SESSIONS, request.sid,
                                            AssistantMessage(RetrievalErrorNote))
                    /\ response' = ChatReply(RetrievalErrorReply, request.sid)
                    /\ request' = [request EXCEPT !.pc = "idle",
                                                  !.chunks = up.chunks]
    /\ UNCHANGED <<manager, sdk, coreVars, concVars, appVars>>

\* The second generate_content call, on the records found: it raises, or
\* its text is the reply.
ChatFollowup ==
    /\ request.pc = "followup"
    /\ \/ \E e \in SdkErrors :
            /\ response' = ChatError(e)
            /\ UNCHANGED SESSIONS
            /\ request' = [request EXCEPT !.pc = "idle"]
       \/ \E t \in ModelTexts :
            /\ SESSIONS' = AppendTo(SESSIONS, request.sid,
                                    AssistantMessage(sanitize_reply(t)))
            /\ response' = ChatReply(sanitize_reply(t), request.sid)
            /\ request' = [request EXCEPT !.pc = "idle", !.text = t,
                                          !.answered = TRUE]
    /\ UNCHANGED <<manager, sdk, coreVars, concVars, appVars>>

NextApi ==
    \/ Construct
    \/ InitializeDb
    \/ GetDb
    \/ Deliver
    \/ ImportProbe
    \/ GetPcrRecords
    \/ ChatStart
    \/ ChatModel
    \/ ChatEnsureChroma
    \/ ChatRetrieve
    \/ ChatFollowup

SpecApi == Init /\ [][NextApi]_vars

\* ------------------------------------------------- claims on the handlers
\* A handler has answered a request for which it needed the index and had
\* none: no handle for the records handler, a failed load for the tool path.
IndexWasUnavailable ==
    /\ request.pc = "idle"
    /\ request.handler \in {"get_pcr_records", "api_chat"}
    /\ request.index = "unavailable"

\* C17: a handler that needs the index while it is unavailable answers with
\* a generic error and a server-error status, never with a success status.
C17_IndexUnavailableIsServerError ==
    IndexWasUnavailable => (response.status = 500 /\ response.kind = "error")

\* C17 (as the code has it): without a handle GET /pcr_records/ answers 500
\* with a generic error body and no records; the tool path of /api/chat,
\* when the load fails, notes the failure in the session and answers with
\* the fixed index-unavailable reply and the session id in a normal 200
\* response.
C17_IndexUnavailableAnswers ==
    IndexWasUnavailable =>
        /\ request.handler = "get_pcr_records" =>
              /\ response.status = 500
              /\ response.kind = "error"
              /\ response.detail = InternalServerError
              /\ response.records = <<>>
        /\ request.handler = "api_chat" =>
              /\ response.status = 200
              /\ response.kind = "chat"
              /\ response.reply = IndexUnavailableReply
              /\ response.session_id = request.sid
              /\ manager.db = 0
              /\ LET h == SESSIONS[request.sid]
                 IN  h[Len(h)] = AssistantMessage(IndexUnavailableNote)

\* C17 witness: the model asked for the search, the load of the index
\* failed, and /api/chat has answered.
C17_Witness ==
    /\ IndexWasUnavailable
    /\ request.handler = "api_chat"
    /\ request.search = "pcr"
    /\ response.status = 200

\* records[skip : skip + limit]
Page(records, skip, limit) ==
    SubSeq(records, skip + 1, Min(Len(records), skip + limit))

\* C18: skip and limit are honoured: the records handler returns the page
\* of the ranked result that skip and limit name, and the tool path of
\* /api/chat hands at most limit documents to the model.
C18_SkipLimitHonoured ==
    /\ (request.handler = "get_pcr_records" /\ request.pc = "idle"
          /\ response.status = 200) =>
          response.records =
              Page(OutcomeOn(request.chunks, DefaultTopN).returned,
                   request.skip, request.limit)
    /\ (request.handler = "api_chat" /\ request.pc = "followup") =>
          Len(request.records) <= request.limit

\* C19: there is one manager instance and its index is loaded at most
\* once: the handle is that of the first load; get_db raises exactly while
\* no load has succeeded and otherwise returns that handle; initialize_db
\* on a loaded manager does nothing, and a failed initialize_db leaves the
\* manager without handle.
C19_SingleLoad ==
    /\ manager.instances <= 1
    /\ manager.loads <= 1
    /\ manager.db = manager.loads
    /\ request.handler = "get_db" =>
          /\ response.kind = "raised" <=> manager.loads = 0
          /\ response.kind = "handle" <=> manager.loads = 1
          /\ response.kind = "handle" => response.handle = 1
    /\ (request.handler = "initialize_db" /\ request.index = "available") =>
          (response.kind = "done" /\ manager.loads = 1 /\ manager.db = 1)
    /\ (request.handler = "initialize_db" /\ response.kind = "raised") =>
          (manager.db = 0 /\ request.index = "unavailable")

\* C19 witness: initialize_db has been called on a loaded manager.
C19_Witness ==
    /\ request.handler = "initialize_db"
    /\ request.index = "available"
    /\ manager.loads = 1

\* C20: every /api/chat request ends with a reply and the session id in
\* the response or with an HTTP 500; without the SDK it ends with the 500
\* of the fallback through call_gemini_prompt.
C20_ReplyOrServerError ==
    (request.handler = "api_chat" /\ request.pc = "idle") =>
        /\ \/ /\ response.status = 200
              /\ response.kind = "chat"
              /\ response.session_id = request.sid
           \/ response.status = 500
        /\ sdk = "missing" => response.status = 500

\* ------------------------------------------------------- the agent tools
\* The limit both tools pass to their service call.
ToolLimit == 3
\* The most rows the pcr_records table holds.
MaxRows == 4
\* The query strings an agent calls a tool with.
ToolQueries == {"", "pcr", "PCR"}
\* The document names and pcr_reg_no values of the rows of pcr_records.
RowNames == {"pcr", "other"}
RowRegs == {"R1", None}
\* What the database meets: the connection fails, the statement fails, or
\* the statement runs.
DbOutcomes == {"ok", "connect failed", "execute failed"}
\* The exceptions of the database path, by what the tool logs of them.
ConnectError == [type |-> "HTTPException", message |-> <<"no connection">>]
ExecuteError == [type |-> "sqlite3.Error", message |-> <<"statement failed">>]
LoadFailed(env) == [type |-> env, message |-> <<env>>]

\* str.lower() on the query strings.
Lower(q) == IF q = "PCR" THEN "pcr" ELSE q
\* LOWER(document_name) LIKE '%' || lower(search) || '%', on whole names.
Matches(row, q) == row.document_name = Lower(q)
\* SELECT * FROM pcr_records [WHERE ..] LIMIT limit OFFSET skip
Select(table, skip, limit, q) ==
    LET Wanted(row) == ~Truthy(q) \/ Matches(row, q)
        found == SelectSeq(table, Wanted)
    IN  SubSeq(found, skip + 1,
               IF Len(found) < skip + limit THEN Len(found) ELSE skip + limit)

\* get_pcr_records_from_db: the connection, the statement, and one
\* PCRRecord per row; a row without pcr_reg_no does not validate.
get_pcr_records_from_db(skip, limit, q, outcome, table) ==
    IF outcome = "connect failed"
    THEN [ok |-> FALSE, records |-> <<>>, error |-> ConnectError]
    ELSE IF outcome = "execute failed"
    THEN [ok |-> FALSE, records |-> <<>>, error |-> Wrapped(ExecuteError)]
    ELSE LET rows == Select(table, skip, limit, q)
         IN  IF \A i \in DOMAIN rows : Validates(rows[i])
             THEN [ok |-> TRUE, records |-> rows, error |-> NoError]
             ELSE [ok |-> FALSE, records |-> <<>>, error |-> ValidationError]

\* A variant of the tools without their except clause.
ToolReturnOrRaise(r) ==
    IF r.ok
    THEN [NoResponse EXCEPT !.kind = "list", !.records = r.records]
    ELSE [NoResponse EXCEPT !.kind = "raised", !.detail = r.error.message]

\* return records, or the except clause: log the exception and return [].
ToolReturn(r) ==
    [NoResponse EXCEPT !.kind = "list",
                       !.records = IF r.ok THEN r.records ELSE <<>>,
                       !.detail = IF r.ok THEN <<>> ELSE r.error.message]

\* The agent calls pcr_database_search(query).
PcrDatabaseSearch ==
    /\ Quiet
    /\ \E q \in ToolQueries, outcome \in DbOutcomes :
       \E n \in 0..MaxRows : \E m \in [1..n -> RowNames \X RowRegs] :
        /\ outcome # "ok" => n = 0
        /\ LET table == [i \in 1..n |-> [document_name |-> m[i][1],
                                         pcr_reg_no |-> m[i][2], rowid |-> i]]
               r == get_pcr_records_from_db(0, ToolLimit, q, outcome, table)
           IN  /\ request' = [NoRequest EXCEPT !.handler = "pcr_database_search",
                                               !.search = q, !.limit = ToolLimit,
                                               !.chunks = table,
                                               !.records = r.records]
               /\ response' = ToolReturn(r)
    /\ UNCHANGED <<manager, sdk, SESSIONS, coreVars, concVars, appVars>>

\* The agent calls pcr_chroma_search(query): without a handle the tool
\* loads the index and returns [] when that raises; then the search.
PcrChromaSearch ==
    /\ Quiet
    /\ manager.instances = 1
    /\ \E q \in ToolQueries, env \in InitOutcomes :
        LET i == initialize_db(manager, env)
            req == [NoRequest EXCEPT !.handler = "pcr_chroma_search",
                                     !.search = q, !.limit = ToolLimit]
        IN  /\ manager.db # 0 => env = "ok"
            /\ manager' = i.manager
            /\ IF i.raised # None
               THEN /\ request' = [req EXCEPT !.index = "unavailable"]
                    /\ response' = ToolReturn([ok |-> FALSE, records |-> <<>>,
                                               error |-> LoadFailed(env)])
               ELSE \E e \in UpstreamErrors \cup {NoError} :
                    \E n \in 0..MaxApiLen : \E m \in [1..n -> ApiFids \X ApiRegs] :
                       /\ e # NoError => n = 0
                       /\ LET up == [error |-> e, chunks |-> Response(n, m)]
                              r == get_pcr_records_from_chroma(0, ToolLimit, q, up,
                                                               DefaultTopN)
                          IN  /\ request' = [req EXCEPT !.index = "available",
                                                        !.chunks = up.chunks,
                                                        !.records = r.records]
                              /\ response' = ToolReturn(r)
    /\ UNCHANGED <<sdk, SESSIONS, coreVars, concVars, appVars>>

NextTools ==
    \/ Construct
    \/ InitializeDb
    \/ Deliver
    \/ PcrDatabaseSearch
    \/ PcrChromaSearch

SpecTools == Init /\ [][NextTools]_vars

\* A tool has returned to the agent.
ToolCalled == request.handler \in {"pcr_database_search", "pcr_chroma_search"}

\* C21: the tools never raise: every call returns a list, which is empty
\* when the load of the index, the search or the database failed, and is
\* otherwise the records of the service call on what the store held.
C21_ToolsNeverRaise ==
    ToolCalled =>
        /\ response.kind = "list"
        /\ response.detail # <<>> => response.records = <<>>
        /\ request.index = "unavailable" =>
              (response.records = <<>> /\ manager.db = 0)
        /\ response.detail = <<>> =>
              /\ response.records = request.records
              /\ request.handler = "pcr_database_search" =>
                    response.records =
                        Select(request.chunks, 0, ToolLimit, request.search)
              /\ request.handler = "pcr_chroma_search" =>
                    response.records =
                        IF Truthy(request.search)
                        THEN OutcomeOn(request.chunks, DefaultTopN).returned
                        ELSE <<>>

\* C21 witness: the index could not be loaded and pcr_chroma_search has
\* returned the empty list.
C21_Witness ==
    /\ request.handler = "pcr_chroma_search"
    /\ request.index = "unavailable"
    /\ request.search = "pcr"
    /\ response.kind = "list"
    /\ response.records = <<>>

\* ------------------------------------------------------ claims: the ties
\* The position of the first passage carrying fid f.
FirstPosition(f) == KthSmallest(PositionsOf(f), 1)

\* C22: ties are broken by first occurrence: of two fids with the same
\* number of passages, the one whose first passage comes earlier is ranked
\* earlier, and it is the one kept when top_n cuts between them; the
\* ranking is the same whenever it is computed again.
C22_StableTieBreak ==
    Ranked =>
        /\ top_doc_fids = get_top_n_document_fids(initial_chunks, top_n_documents)
        /\ \A f, g \in PresentFids :
              (/\ PassageCount(f) = PassageCount(g)
               /\ FirstPosition(f) < FirstPosition(g)
               /\ RankOf(g) # 0)
                 => (RankOf(f) # 0 /\ RankOf(f) < RankOf(g))

\* C22 witness: A and B have one passage each, B's comes first, and
\* top_n = 1 keeps B and cuts A.
C22_Witness ==
    /\ pc = "returned"
    /\ top_n_documents = 1
    /\ Len(initial_chunks) = 3
    /\ initial_chunks[2].fid = "B"
    /\ initial_chunks[3].fid = "A"
    /\ ~HasFid(initial_chunks[1])
    /\ top_doc_fids = <<"B">>

\* ---------------------------------------------- claims: the session store
IsPrefix(a, b) == Len(a) <= Len(b) /\ SubSeq(b, 1, Len(a)) = a

\* A step removes no session and only extends the histories.
AppendOnly ==
    \A sid \in DOMAIN SESSIONS :
        /\ sid \in DOMAIN SESSIONS'
        /\ IsPrefix(SESSIONS[sid], SESSIONS'[sid])

\* The history of the request's session as it was when the prompt was built.
HistoryAtPrompt ==
    SubSeq(SESSIONS[request.sid], 1, request.had + Len(request.messages))

\* A request that has returned a reply has extended its session by its
\* messages, in order, and one assistant message.
RepliesExtend ==
    (request.handler = "api_chat" /\ request.pc = "idle"
       /\ response.kind = "chat") =>
        LET h == SESSIONS[request.sid]
        IN  /\ Len(h) = request.had + Len(request.messages) + 1
            /\ \A i \in DOMAIN request.messages :
                  h[request.had + i] = Stored(request.messages[i])
            /\ h[Len(h)].role = "assistant"

\* Every prompt made for the model holds the last 40 messages of the session.
PromptsHoldWindow ==
    request.prompt.kind \in {"chat", "followup"} =>
        request.prompt.messages = Window(HistoryAtPrompt)

\* The first prompt holds the last 40 messages of the session; the prompt
\* that follows a search holds the records found and no message.
PromptsHoldWindowOrRecords ==
    /\ request.prompt.kind = "chat" =>
          /\ request.prompt.messages = Window(HistoryAtPrompt)
          /\ request.prompt.results = <<>>
    /\ request.prompt.kind = "followup" =>
          /\ request.prompt.messages = <<>>
          /\ request.prompt.results = request.records

\* C23: the session store is append-only: no step removes a session or
\* changes what a history already holds; a request that returns a reply
\* has extended its session by its messages in order and one assistant
\* message; and every prompt sent to the model is made of the last 40
\* messages of the request's session.
C23_AppendOnlyAndWindow ==
    [][AppendOnly /\ RepliesExtend' /\ PromptsHoldWindow']_vars

\* C23 (as the code has it): the same, except for the prompts: the first
\* prompt of a request is made of the last 40 messages of its session, and
\* the prompt sent after a search is made of the records found and holds no
\* message of any session.
C23_AppendOnlyAndFirstPrompt ==
    [][AppendOnly /\ RepliesExtend' /\ PromptsHoldWindowOrRecords']_vars

\* C23 witness: a request with 41 messages has been answered: the prompt
\* held the last 40 of them, and the session holds all 41 and the reply.
C23_Witness ==
    /\ request.handler = "api_chat"
    /\ request.pc = "idle"
    /\ response.kind = "chat"
    /\ Len(request.messages) = PromptWindow + 1
    /\ Len(request.prompt.messages) = PromptWindow
    /\ request.prompt.messages[1] = Stored(LongBody[2])
    /\ Len(SESSIONS[request.sid]) = PromptWindow + 2
    /\ SESSIONS[request.sid][1].content = <<"opening">>

\* ------------------------------------------- claims: the sanitized reply
NoLineNamesTool(text) == \A i \in DOMAIN text : ~NamesTool(text[i])

\* The texts sanitize_reply is tried on: up to three lines of any kind.
Lines == {"answer", "pcr_chroma_search", "PCR_CHROMA_SEARCH", "tool executed", Blank}
Texts == UNION {[1..n -> Lines] : n \in 0..MaxLen}

\* A line that neither names the tool, nor reports its run, nor is blank.
Plain(line) == KeptLine(line) /\ line # Blank
NotNaming(line) == ~NamesTool(line)

\* The messages the handler has appended to the session of its request
\* after the incoming ones.
AppendedByHandler ==
    LET h == SESSIONS[request.sid]
        from == request.had + Len(request.messages)
    IN  IF request.handler = "api_chat" /\ Len(h) > from
        THEN SubSeq(h, from + 1, Len(h)) ELSE <<>>

\* What sanitize_reply leaves of a text: no line naming the tool or
\* reporting its run, the plain lines all and in order, no blank line at
\* the ends.
KeepsPlainLines ==
    \A t \in Texts \cup ModelTexts :
        LET c == sanitize_reply(t)
        IN  /\ \A i \in DOMAIN c : KeptLine(c[i])
            /\ SelectSeq(c, Plain) = SelectSeq(t, Plain)
            /\ Len(c) <= Len(t)
            /\ c # <<>> => (c[1] # Blank /\ c[Len(c)] # Blank)

Idempotent == \A t \in Texts : sanitize_reply(sanitize_reply(t)) = sanitize_reply(t)

\* C24: no reply of /api/chat and no assistant message stored in a session
\* has a line naming pcr_chroma_search in any letter case; a reply made by
\* the model is sanitize_reply of the model's text, which is the text
\* without the lines naming the tool, every other line kept in order; and
\* sanitize_reply is idempotent.
C24_NoToolNameKeepsOthers ==
    /\ response.kind = "chat" => NoLineNamesTool(response.reply)
    /\ \A sid \in DOMAIN SESSIONS : \A i \in DOMAIN SESSIONS[sid] :
          SESSIONS[sid][i].role = "assistant" =>
              NoLineNamesTool(SESSIONS[sid][i].content)
    /\ request.answered =>
          /\ response.reply = sanitize_reply(request.text)
          /\ sanitize_reply(request.text) = SelectSeq(request.text, NotNaming)
    /\ Idempotent

\* C24 (as the code has it): no reply of /api/chat and no message the
\* handler appends to a session has a line naming pcr_chroma_search in any
\* letter case; a reply made by the model is sanitize_reply of the model's
\* text, which has no line naming the tool or reporting its run, keeps the
\* lines of the text that do neither and are not blank, all of them and in
\* order, and has no blank line at its ends; and sanitize_reply is
\* idempotent.
C24_NoToolNameInReplies ==
    /\ response.kind = "chat" => NoLineNamesTool(response.reply)
    /\ \A i \in DOMAIN AppendedByHandler :
          /\ AppendedByHandler[i].role = "assistant"
          /\ NoLineNamesTool(AppendedByHandler[i].content)
    /\ request.answered =>
          /\ response.reply = sanitize_reply(request.text)
          /\ SESSIONS[request.sid][Len(SESSIONS[request.sid])].content
                = response.reply
    /\ KeepsPlainLines
    /\ Idempotent

\* C24 witness: the model's text had a line naming the tool in capitals, a
\* line reporting the run and blank lines, and the reply is the one line
\* left.
C24_Witness ==
    /\ request.answered
    /\ \E i \in DOMAIN request.text : request.text[i] = "PCR_CHROMA_SEARCH"
    /\ \E i \in DOMAIN request.text : ReportsRun(request.text[i])
    /\ response.reply = <<"answer">>
    /\ SESSIONS[request.sid][Len(SESSIONS[request.sid])]
          = AssistantMessage(<<"answer">>)

\* ============================================== the LINE webhook (main.py)
\* The states of the flow.
FlowStates ==
    {"START", "WAITING_PRODUCT", "CHECKING_PCR", "PCR_FOUND", "NO_PCR_FOUND",
     "WAITING_DETAILED_INFO", "FINAL_RESPONSE", "END"}
\* The markers the function looks for, in the order of its tests.
CheckOrder ==
    <<"WAITING_PRODUCT", "CHECKING_PCR", "PCR_FOUND", "NO_PCR_FOUND",
      "WAITING_DETAILED_INFO", "FINAL_RESPONSE", "END">>

\* A reply is a sequence of pieces: plain text, or "[NEXT_STATE: X]".
Text == <<"text">>
Marker(X) == <<"NEXT_STATE", X>>
IsMarker(piece) == Len(piece) = 2
\* "[NEXT_STATE: X]" in llm_reply
Contains(reply, piece) == \E i \in DOMAIN reply : reply[i] = piece

\* A variant that takes the marker written first in the reply.
RECURSIVE FirstWritten(_, _)
FirstWritten(reply, k) ==
    IF reply = <<>> THEN None
    ELSE IF IsMarker(Head(reply)) /\ Head(reply)[2] \in Range(CheckOrder)
         THEN Head(reply)[2]
         ELSE FirstWritten(Tail(reply), k)

\* The chain of tests on the markers: the first test that finds its marker
\* gives the result; None when no test does.
RECURSIVE FirstRecognised(_, _)
FirstRecognised(reply, k) ==
    IF k > Len(CheckOrder) THEN None
    ELSE IF Contains(reply, Marker(CheckOrder[k])) THEN CheckOrder[k]
         ELSE FirstRecognised(reply, k + 1)

\* The fallback on the current state.
Successor(current_state) ==
    CASE current_state = "START" -> "WAITING_PRODUCT"
      [] current_state = "WAITING_PRODUCT" -> "CHECKING_PCR"
      [] current_state = "CHECKING_PCR" -> "CHECKING_PCR"
      [] current_state = "PCR_FOUND" -> "WAITING_DETAILED_INFO"
      [] current_state = "NO_PCR_FOUND" -> "WAITING_PRODUCT"
      [] current_state = "WAITING_DETAILED_INFO" -> "FINAL_RESPONSE"
      [] current_state = "FINAL_RESPONSE" -> "END"
      [] OTHER -> current_state

determine_next_state_from_llm_reply(current_state, llm_reply) ==
    LET marked == FirstRecognised(llm_reply, 1)
    IN  IF marked # None THEN marked ELSE Successor(current_state)

\* The longest reply, in pieces, the function is called with.
MaxReplyLen == 2
\* The pieces of the replies: text, a marker of each state of the flow (the
\* one of START is none the function looks for).
Pieces == {Text} \cup {Marker(X) : X \in FlowStates}
Replies == UNION {[1..n -> Pieces] : n \in 0..MaxReplyLen}
\* The current states the function is called with: those of the flow, and
\* one that is none of them.
CurrentStates == FlowStates \cup {"OTHER"}

DetermineCall ==
    /\ transition.pc = "idle"
    /\ \E cs \in CurrentStates, r \in Replies :
          transition' = [NoTransition EXCEPT !.pc = "called",
                                             !.current_state = cs,
                                             !.llm_reply = r]
    /\ UNCHANGED <<user_states, event, coreVars, concVars, apiVars, botVars, loadVars>>

DetermineReturn ==
    /\ transition.pc = "called"
    /\ transition' = [transition EXCEPT
                        !.pc = "returned",
                        !.result = determine_next_state_from_llm_reply(
                                       transition.current_state,
                                       transition.llm_reply)]
    /\ UNCHANGED <<user_states, event, coreVars, concVars, apiVars, botVars, loadVars>>

NextTransition == DetermineCall \/ DetermineReturn

SpecTransition == Init /\ [][NextTransition]_vars

\* The k-th test finds its marker and no earlier test finds its own.
FirstFound(reply, k) ==
    /\ Contains(reply, Marker(CheckOrder[k]))
    /\ \A j \in 1..(k - 1) : ~Contains(reply, Marker(CheckOrder[j]))
Unmarked(reply) ==
    \A k \in DOMAIN CheckOrder : ~Contains(reply, Marker(CheckOrder[k]))

\* C25: determine_next_state_from_llm_reply returns X when the reply holds
\* the marker of X, whatever the current state, the first marker in the
\* order of the tests winning when there are several; without a marker it
\* returns the fixed successor of the current state, CHECKING_PCR for
\* CHECKING_PCR, and a state that is none of the flow's is kept: the result
\* leaves CHECKING_PCR only on a marker.
C25_MarkerOrSuccessor ==
    transition.pc = "returned" =>
        LET cs == transition.current_state
            r == transition.llm_reply
            res == transition.result
        IN  /\ \A k \in DOMAIN CheckOrder : FirstFound(r, k) => res = CheckOrder[k]
            /\ Unmarked(r) =>
                  /\ cs = "START" => res = "WAITING_PRODUCT"
                  /\ cs = "WAITING_PRODUCT" => res = "CHECKING_PCR"
                  /\ cs = "CHECKING_PCR" => res = "CHECKING_PCR"
                  /\ cs = "PCR_FOUND" => res = "WAITING_DETAILED_INFO"
                  /\ cs = "NO_PCR_FOUND" => res = "WAITING_PRODUCT"
                  /\ cs = "WAITING_DETAILED_INFO" => res = "FINAL_RESPONSE"
                  /\ cs = "FINAL_RESPONSE" => res = "END"
                  /\ cs \in {"END", "OTHER"} => res = cs
            /\ (cs = "CHECKING_PCR" /\ res # "CHECKING_PCR") => ~Unmarked(r)

\* C25 witness: the reply holds the marker of END and then the one of
\* WAITING_PRODUCT, and the result is WAITING_PRODUCT.
C25_Witness ==
    /\ transition.pc = "returned"
    /\ transition.llm_reply = <<Marker("END"), Marker("WAITING_PRODUCT")>>
    /\ transition.current_state = "CHECKING_PCR"
    /\ transition.result = "WAITING_PRODUCT"

\* ------------------------------------------------- POST /webhook (main.py)
\* The users and the texts of the events.
Users == {"u1", "u2"}
Messages == {"", "shoes", "pcr shoes"}
\* The texts simulate_pcr_check finds a PCR for: those holding one of its
\* three words.
simulate_pcr_check(product_query) == product_query \in {"pcr shoes"}

\* The replies of the model: text alone, or text and one marker.
LineReplies == {<<Text>>} \cup {<<Text, Marker(X)>> : X \in FlowStates}
\* The reply put in place of the model's when llm.predict raises.
Apology == <<<<"apology">>>>

\* A variant that files every user under one key.
SharedKey(user_id) == "u1"
\* The key of user_states an event reads and writes.
UserKey(user_id) == user_id

\* user_states.get(key, {})
Entry(key) == IF key \in DOMAIN user_states THEN user_states[key] ELSE NoEntry
\* user_states.setdefault(key, {})[...] = ...
Put(key, entry) ==
    [k \in DOMAIN user_states \cup {key} |->
        IF k = key THEN entry ELSE user_states[k]]

\* A variant that keeps the product query the user already has.
KeepFirstQuery(entry, text) ==
    [entry EXCEPT !.product_query = IF @ = None THEN text ELSE @,
                  !.current_state = "CHECKING_PCR"]
\* The branch of WAITING_PRODUCT: the text becomes the product query and the
\* state CHECKING_PCR.
StoreQuery(entry, text) ==
    [entry EXCEPT !.product_query = text, !.current_state = "CHECKING_PCR"]

\* bot_reply.split("[NEXT_STATE:")[0]
RECURSIVE BeforeMarker(_)
BeforeMarker(reply) ==
    IF reply = <<>> \/ IsMarker(Head(reply)) THEN <<>>
    ELSE <<Head(reply)>> \o BeforeMarker(Tail(reply))

\* An event is taken from the body: one that is no text message is passed
\* over; for a text message the state is read, and in WAITING_PRODUCT the
\* text is stored and the state moved on.
LineReceive ==
    /\ event.pc = "idle"
    /\ \E type \in {"text", "image"}, u \in Users, m \in Messages :
        IF type # "text"
        THEN /\ event' = [NoEvent EXCEPT !.pc = "skipped", !.type = type,
                                         !.user = u]
             /\ UNCHANGED user_states
        ELSE LET e == Entry(UserKey(u))
                 cs == IF e.current_state = None THEN "START"
                       ELSE e.current_state
             IN  /\ user_states' = IF cs = "WAITING_PRODUCT"
                                   THEN Put(UserKey(u), StoreQuery(e, m))
                                   ELSE user_states
                 /\ event' = [NoEvent EXCEPT
                                !.pc = "check", !.type = type, !.user = u,
                                !.text = m, !.arrived = cs,
                                !.current_state =
                                    IF cs = "WAITING_PRODUCT"
                                    THEN "CHECKING_PCR" ELSE cs]
    /\ UNCHANGED <<transition, coreVars, concVars, apiVars, botVars, loadVars>>

\* In CHECKING_PCR the simulated check runs on the stored product query, if
\* there is one.
LineCheck ==
    /\ event.pc = "check"
    /\ LET stored == Entry(UserKey(event.user)).product_query
           product_query == IF stored = None THEN "" ELSE stored
       IN  event' = [event EXCEPT
                       !.pc = "predict",
                       !.checked = IF event.current_state = "CHECKING_PCR"
                                      /\ product_query # ""
                                   THEN product_query ELSE None,
                       !.status = IF event.current_state # "CHECKING_PCR" THEN ""
                                  ELSE IF product_query = "" THEN "no_query"
                                  ELSE IF simulate_pcr_check(product_query)
                                       THEN "found" ELSE "not_found"]
    /\ UNCHANGED <<user_states, transition, coreVars, concVars, apiVars, botVars, loadVars>>

\* llm.predict answers or raises.
LinePredict ==
    /\ event.pc = "predict"
    /\ \E r \in LineReplies \cup {Apology} :
          event' = [event EXCEPT !.pc = "update", !.bot_reply = r]
    /\ UNCHANGED <<user_states, transition, coreVars, concVars, apiVars, botVars, loadVars>>

\* The next state is stored and the reply sent without its marker.
LineUpdate ==
    /\ event.pc = "update"
    /\ LET next_state == determine_next_state_from_llm_reply(
                             event.current_state, event.bot_reply)
           key == UserKey(event.user)
       IN  user_states' = Put(key, [Entry(key) EXCEPT
                                       !.current_state = next_state])
    /\ event' = [event EXCEPT !.pc = "replied",
                              !.sent = BeforeMarker(event.bot_reply)]
    /\ UNCHANGED <<transition, coreVars, concVars, apiVars, botVars, loadVars>>

\* The handling of the event ends.
LineDone ==
    /\ event.pc \in {"replied", "skipped"}
    /\ event' = NoEvent
    /\ UNCHANGED <<user_states, transition, coreVars, concVars, apiVars, botVars, loadVars>>

NextLine == LineReceive \/ LineCheck \/ LinePredict \/ LineUpdate \/ LineDone

SpecLine == Init /\ [][NextLine]_vars

\* Every stored current_state is a state of the flow.
StatesOfTheFlow ==
    \A u \in DOMAIN user_states : user_states[u].current_state \in FlowStates

\* The user whose event a step handles.
Handled == IF event.pc = "idle" THEN event'.user ELSE event.user

\* C26: after any sequence of webhook text events, whatever the model
\* replies and also when it fails, every user's stored current_state is one
\* of the eight states of the flow, and the events of one user never change
\* the state or the product query of another user.
C26_StatesValidUsersApart ==
    [][/\ StatesOfTheFlow'
       /\ \A u \in Users \ {Handled} : Entry(u)' = Entry(u)]_vars

\* C26 witness: the two users have been served and are in different states,
\* the first with a product query and the second without one, and the model
\* has just failed on an event of the second.
C26_Witness ==
    /\ DOMAIN user_states = Users
    /\ user_states["u1"].current_state = "CHECKING_PCR"
    /\ user_states["u1"].product_query = "shoes"
    /\ user_states["u2"].current_state = "WAITING_PRODUCT"
    /\ user_states["u2"].product_query = None
    /\ event.pc = "replied" /\ event.user = "u2" /\ event.bot_reply = Apology

\* C27: a text arriving in WAITING_PRODUCT is stored as the user's
\* product_query and the state is CHECKING_PCR before the model is called;
\* the simulated check runs only in CHECKING_PCR and only on a product query
\* that is not empty, and in the event that stored the text it runs on that
\* text.
C27_StoredBeforePredict ==
    /\ (event.pc \in {"check", "predict"} /\ event.arrived = "WAITING_PRODUCT") =>
          /\ Entry(event.user).product_query = event.text
          /\ Entry(event.user).current_state = "CHECKING_PCR"
          /\ event.current_state = "CHECKING_PCR"
    /\ event.checked # None =>
          /\ event.current_state = "CHECKING_PCR"
          /\ event.checked # ""
          /\ event.arrived = "WAITING_PRODUCT" => event.checked = event.text
    /\ (event.pc \in {"predict", "update", "replied"}
          /\ event.arrived = "WAITING_PRODUCT" /\ event.text # "") =>
              event.checked = event.text

\* C27 witness: a user in WAITING_PRODUCT has sent a text naming a PCR; it
\* is the stored product query and the check has run on it and found a
\* PCR as the model is about to be called.
C27_Witness ==
    /\ event.pc = "predict"
    /\ event.arrived = "WAITING_PRODUCT"
    /\ event.text = "pcr shoes"
    /\ event.checked = "pcr shoes"
    /\ event.status = "found"
    /\ user_states[event.user].product_query = "pcr shoes"

\* =================================== the agent-based webhook (line_bot.py)
\* The most text events handled for one user.
MaxTurns == 2
\* The texts of the events as they arrive, and event["message"]["text"].strip().
RawTexts == {" hi ", "shoes"}
StripText(raw) == IF raw = " hi " THEN "hi" ELSE raw
\* The outputs of the agent, and the reply put in place when it raises.
AgentOutputs == {"answer"}
BotApology == "apology"
HumanMessage(text) == [type |-> "human", content |-> text]
AIMessage(text) == [type |-> "ai", content |-> text]

\* How many text events of the user have been taken so far.
TurnsOf(u) ==
    IF u \in DOMAIN user_sessions
    THEN Cardinality({i \in DOMAIN user_sessions[u].memory :
                         user_sessions[u].memory[i].type = "human"})
    ELSE 0

\* memory.chat_memory.add_user_message / add_ai_message
AddMessage(sessions, u, msg) ==
    [sessions EXCEPT ![u].memory = Append(@, msg)]

\* An event is taken from the body. One that is no text message is passed
\* over. For a text message the session of the user is made if there is
\* none, the text is added to the memory, and the agent is started: the
\* handler waits for it.
BotReceive(r) ==
    /\ handlers[r].pc = "idle"
    /\ \E type \in {"text", "image"}, u \in BotUsers, raw \in RawTexts :
        IF type # "text"
        THEN /\ raw = "shoes"
             /\ handlers' = [handlers EXCEPT ![r] =
                                [NoHandler EXCEPT !.pc = "skipped",
                                                  !.type = type, !.user = u]]
             /\ UNCHANGED <<user_sessions, constructed>>
        ELSE /\ TurnsOf(u) < MaxTurns
             /\ LET new == u \notin DOMAIN user_sessions
                    sessions ==
                        IF new
                        THEN [k \in DOMAIN user_sessions \cup {u} |->
                                IF k = u
                                THEN [NoSession EXCEPT !.agent_executor = 1]
                                ELSE user_sessions[k]]
                        ELSE user_sessions
                IN  /\ constructed' = [constructed EXCEPT ![u] =
                                          IF new THEN @ + 1 ELSE @]
                    /\ user_sessions' = AddMessage(sessions, u,
                                           HumanMessage(StripText(raw)))
                    /\ handlers' = [handlers EXCEPT ![r] =
                          [NoHandler EXCEPT
                              !.pc = "agent", !.type = type, !.user = u,
                              !.text = StripText(raw),
                              !.before = Len(sessions[u].memory)]]
    /\ UNCHANGED <<lineVars, coreVars, concVars, apiVars, loadVars>>

\* agent_executor.ainvoke returns or raises: the output, or the apology, is
\* added to the memory and reply_line is called with it.
BotAgent(r) ==
    /\ handlers[r].pc = "agent"
    /\ \E out \in AgentOutputs \cup {BotApology} :
        /\ user_sessions' = AddMessage(user_sessions, handlers[r].user,
                                       AIMessage(out))
        /\ handlers' = [handlers EXCEPT ![r].pc = "replying",
                                        ![r].output = out,
                                        ![r].replies = @ + 1]
    /\ UNCHANGED <<constructed, lineVars, coreVars, concVars, apiVars, loadVars>>

\* reply_line returns and the handling of the event ends.
BotDone(r) ==
    /\ handlers[r].pc \in {"replying", "skipped"}
    /\ handlers' = [handlers EXCEPT ![r] = NoHandler]
    /\ UNCHANGED <<user_sessions, constructed, lineVars,
                   coreVars, concVars, apiVars, loadVars>>

NextBot == \E r \in Requests : BotReceive(r) \/ BotAgent(r) \/ BotDone(r)

SpecBot == Init /\ [][NextBot]_vars

\* C28: the session of a user is made once, on the first text message, and
\* used afterwards; a handled text event has extended the memory of its user
\* by two messages, the user's message and then one AI message (the agent's
\* output or the apology); and one reply is sent for it.
C28_TwoMessagesOneReply ==
    /\ \A u \in BotUsers :
          /\ constructed[u] <= 1
          /\ u \in DOMAIN user_sessions <=> constructed[u] = 1
    /\ \A r \in Requests :
          /\ handlers[r].pc = "agent" => handlers[r].replies = 0
          /\ handlers[r].pc = "replying" =>
                LET m == user_sessions[handlers[r].user].memory
                    b == handlers[r].before
                IN  /\ handlers[r].replies = 1
                    /\ m[b + 1] = HumanMessage(handlers[r].text)
                    /\ m[b + 2] = AIMessage(handlers[r].output)

\* ======================================== save_to_sqlite (sqlite_saver.py)
\* A key of the dict that is not there.
Missing == "missing"
\* The most entries of the JSON list and the most runs in a row.
MaxEntries == 2
MaxRuns == 3
\* The entries the scraper writes: pcr_reg_no and, standing for the ten
\* other columns, document_name, each a string or not there.
EntryKeys == {Missing, "A", "B"}
EntryNames == {Missing, "n1"}
Entries == [pcr_reg_no : EntryKeys, document_name : EntryNames]
JsonLists == UNION {[1..n -> Entries] : n \in 0..MaxEntries}
\* What becomes of the run before the loop: the list is read and the table
\* is there, or the file cannot be read, or the database fails.
RunOutcomes == {"ok", "json_error", "sqlite_error"}

\* entry.get(key, "")
Get(field) == IF field = Missing THEN "" ELSE field
\* values = (entry.get("pcr_reg_no", ""), ...)
Values(entry) ==
    [pcr_reg_no |-> Get(entry.pcr_reg_no),
     document_name |-> Get(entry.document_name)]

\* A variant that inserts without replacing.
Insert(rows, row) == rows \cup {row}
\* INSERT OR REPLACE under PRIMARY KEY pcr_reg_no: the row with the key goes
\* and the new one is put in.
InsertOrReplace(rows, row) ==
    {r \in rows : r.pcr_reg_no # row.pcr_reg_no} \cup {row}

\* The list is read, the database opened and the table made if it is not
\* there; a failure ends the run with the table as it was.
SaverStart ==
    /\ saver.pc = "idle"
    /\ saver.runs < MaxRuns
    /\ \E data \in JsonLists, o \in RunOutcomes :
          saver' = [NoRun EXCEPT
                      !.pc = IF o = "ok" THEN "loop" ELSE "done",
                      !.data = IF o = "json_error" THEN <<>> ELSE data,
                      !.i = 1, !.pending = pcr_records,
                      !.before = pcr_records, !.runs = saver.runs + 1]
    /\ UNCHANGED <<pcr_records, indexVars, lineVars, botVars, coreVars, concVars,
                   apiVars>>

\* The run is made again on the list of the run just ended.
SaverStartAgain ==
    /\ saver.pc = "done"
    /\ saver.runs < MaxRuns
    /\ saver.pending = pcr_records
    /\ saver.i > Len(saver.data)
    /\ saver' = [saver EXCEPT !.pc = "loop", !.i = 1, !.before = pcr_records,
                              !.runs = @ + 1, !.again = TRUE]
    /\ UNCHANGED <<pcr_records, indexVars, lineVars, botVars, coreVars, concVars,
                   apiVars>>

\* cursor.execute(insert_sql, values) for the next entry of the list.
SaverInsert ==
    /\ saver.pc = "loop"
    /\ saver.i <= Len(saver.data)
    /\ saver' = [saver EXCEPT
                   !.pending = InsertOrReplace(@, Values(saver.data[saver.i])),
                   !.i = @ + 1]
    /\ UNCHANGED <<pcr_records, indexVars, lineVars, botVars, coreVars, concVars,
                   apiVars>>

\* conn.commit() after the loop.
SaverCommit ==
    /\ saver.pc = "loop"
    /\ saver.i > Len(saver.data)
    /\ pcr_records' = saver.pending
    /\ saver' = [saver EXCEPT !.pc = "done"]
    /\ UNCHANGED <<indexVars, lineVars, botVars, coreVars, concVars, apiVars>>

\* The run is over and its list forgotten.
SaverEnd ==
    /\ saver.pc = "done"
    /\ saver' = [NoRun EXCEPT !.runs = saver.runs]
    /\ UNCHANGED <<pcr_records, indexVars, lineVars, botVars, coreVars, concVars,
                   apiVars>>

NextSaver ==
    SaverStart \/ SaverStartAgain \/ SaverInsert \/ SaverCommit \/ SaverEnd

SpecSaver == Init /\ [][NextSaver]_vars

\* A run over its list has been committed.
Committed == saver.pc = "done" /\ saver.i > Len(saver.data) /\ saver.i > 0
KeysOf(rows) == {r.pcr_reg_no : r \in rows}
ListKeys == {Get(saver.data[j].pcr_reg_no) : j \in DOMAIN saver.data}
\* The last entry of the list with the key.
LastWith(key) ==
    saver.data[CHOOSE j \in DOMAIN saver.data :
                  /\ Get(saver.data[j].pcr_reg_no) = key
                  /\ \A k \in DOMAIN saver.data :
                        Get(saver.data[k].pcr_reg_no) = key => k <= j]

MAX_CHROMA_BATCH_SIZE == 1000
\* The most full batches of the prepared chunks, and how far from a
\* multiple of the batch size their number is taken.
MaxBatches == 2
MaxOff == 2
\* The numbers of prepared chunks: none, a few, and those around the
\* multiples of the batch size.
Totals ==
    (0..MaxOff) \cup
    {k * MAX_CHROMA_BATCH_SIZE + d : k \in 1..MaxBatches, d \in (0 - MaxOff)..MaxOff}

\* The k-th prepared chunk, its metadata and its id.
ChunkText(k) == <<"chunk", k>>
ChunkMetadata(k) == <<"metadata", k>>
ChunkId(k) == <<"id", k>>

\* A variant that takes one item less.
SliceShort(list, i) ==
    SubSeq(list, i + 1, Min(i + MAX_CHROMA_BATCH_SIZE - 1, Len(list)))
\* list[i : i + MAX_CHROMA_BATCH_SIZE]
Slice(list, i) ==
    SubSeq(list, i + 1, Min(i + MAX_CHROMA_BATCH_SIZE, Len(list)))

\* The three lists are filled, one item each for every chunk.
IndexPrepare ==
    /\ indexer.pc = "idle"
    /\ \E n \in Totals :
          indexer' = [NoIndexing EXCEPT
                        !.pc = IF n > 0 THEN "slice" ELSE "done",
                        !.documents = [k \in 1..n |-> ChunkText(k)],
                        !.metadatas = [k \in 1..n |-> ChunkMetadata(k)],
                        !.ids = [k \in 1..n |-> ChunkId(k)]]
    /\ UNCHANGED <<saverVars, lineVars, botVars, coreVars, concVars, apiVars>>

\* The next batch is cut from the three lists; after the last the loop ends.
IndexSlice ==
    /\ indexer.pc = "slice"
    /\ IF indexer.i < Len(indexer.documents)
       THEN indexer' = [indexer EXCEPT
                          !.pc = "add_texts",
                          !.batch = [from |-> indexer.i,
                                     texts |-> Slice(indexer.documents, indexer.i),
                                     metadatas |-> Slice(indexer.metadatas, indexer.i),
                                     ids |-> Slice(indexer.ids, indexer.i)]]
       ELSE indexer' = [indexer EXCEPT !.pc = "done"]
    /\ UNCHANGED <<saverVars, lineVars, botVars, coreVars, concVars, apiVars>>

\* db.add_texts is called with the batch and returns or raises; either way
\* the loop goes on with the next batch.
IndexAddTexts ==
    /\ indexer.pc = "add_texts"
    /\ \E raised \in BOOLEAN :
          indexer' = [indexer EXCEPT
                        !.pc = "slice",
                        !.submitted = Append(@, [from |-> indexer.batch.from,
                                                 texts |-> indexer.batch.texts,
                                                 metadatas |-> indexer.batch.metadatas,
                                                 ids |-> indexer.batch.ids,
                                                 raised |-> raised]),
                        !.i = @ + MAX_CHROMA_BATCH_SIZE,
                        !.batch = <<>>]
    /\ UNCHANGED <<saverVars, lineVars, botVars, coreVars, concVars, apiVars>>

NextIndex == IndexPrepare \/ IndexSlice \/ IndexAddTexts

SpecIndex == Init /\ [][NextIndex]_vars

\* The batches that hold the k-th chunk, with its metadata and its id at the
\* place of the chunk.
BatchesWith(k) ==
    {b \in DOMAIN indexer.submitted :
        LET s == indexer.submitted[b]
            j == k - s.from
        IN  /\ j \in DOMAIN s.texts
            /\ s.texts[j] = indexer.documents[k]}
Aligned(b) ==
    LET s == indexer.submitted[b]
    IN  /\ Len(s.metadatas) = Len(s.texts)
        /\ Len(s.ids) = Len(s.texts)
        /\ \A j \in DOMAIN s.texts :
              /\ s.texts[j] = indexer.documents[s.from + j]
              /\ s.metadatas[j] = indexer.metadatas[s.from + j]
              /\ s.ids[j] = indexer.ids[s.from + j]

\* C30: the batched write partitions the prepared chunks: every chunk is
\* submitted in one add_texts batch and no more, with its own metadata and
\* id at the same place; the batches come in the order of the chunks; no
\* batch has more than MAX_CHROMA_BATCH_SIZE items; and a batch that fails
\* does not keep the following ones from being submitted.
C30_BatchesPartitionChunks ==
    /\ \A b \in DOMAIN indexer.submitted :
          /\ Aligned(b)
          /\ Len(indexer.submitted[b].texts) \in 1..MAX_CHROMA_BATCH_SIZE
          /\ b > 1 => indexer.submitted[b].from =
                         indexer.submitted[b - 1].from
                           + Len(indexer.submitted[b - 1].texts)
    /\ \A k \in DOMAIN indexer.documents :
          Cardinality(BatchesWith(k)) <= 1
    /\ indexer.pc = "done" =>
          \A k \in DOMAIN indexer.documents : Cardinality(BatchesWith(k)) = 1

\* C30 witness: of 2001 chunks the first batch of 1000 failed, and the
\* second of 1000 and the third of one were submitted after it.
C30_Witness ==
    /\ indexer.pc = "done"
    /\ Len(indexer.documents) = 2 * MAX_CHROMA_BATCH_SIZE + 1
    /\ Len(indexer.submitted) = 3
    /\ indexer.submitted[1].raised
    /\ ~indexer.submitted[2].raised
    /\ Len(indexer.submitted[2].texts) = MAX_CHROMA_BATCH_SIZE
    /\ indexer.submitted[3].ids = <<ChunkId(2 * MAX_CHROMA_BATCH_SIZE + 1)>>

====
